---- MODULE Spec2Model ----
(***************************************************************************)
(* Model of the log pipeline and UI loop of uma-auto-debug:                *)
(*   src/src/app.rs        ChannelWriter (line framer), App (scrollback,   *)
(*                         scroll state), the log pump thread              *)
(*   src/src/ui.rs         render / draw_logs (tail-follow, clamp)         *)
(*   src/src/crossterm.rs  run_app (event / tick loop), handle_ui_event    *)
(*   src/src/tui.rs        Tui (inline viewport / alternate screen,        *)
(*                         suspend / resume, draw in a synchronized update)*)
(*                                                                         *)
(* Bytes are integers 0..255, a String is the sequence of its UTF-8 bytes. *)
(***************************************************************************)
EXTENDS Integers, Sequences, FiniteSets, TLC

VARIABLES
    fed,             \* every byte the log source has passed to write(), in order (history)
    buffer,          \* ChannelWriter.buffer
    chan,            \* the mpsc channel: lines sent and not yet received
    sent,            \* every line a send() accepted, in order (history)
    rxAlive,         \* the mpsc Receiver has not been dropped
    pump,            \* the log thread: "unspawned", "streaming", "exited"
    lastWrite,       \* what the last write() returned: "none", "ok", "broken_pipe"
    uiPc,            \* position of start()/run_app
    events,          \* the input thread's channel to run_app
    inputAlive,      \* the input thread still holds its Sender
    should_draw,     \* run_app's local
    should_quit,     \* App.should_quit
    follow_tail,     \* App.follow_tail
    vertical_scroll, \* App.vertical_scroll
    tabs_index,      \* App.tabs.index
    logs_buffer,     \* App.logs_buffer
    log_receiver,    \* App.log_receiver: "none" or "some"
    frame_height,    \* rows of the frame of the last draw
    app_result,      \* what run_app returned: "none", "ok", "err"
    tuiPc,           \* position of run_tui: "boot" (before tui::init), "idle" and "sync"
                     \* (App::run, between operations and inside draw), "done" (App::run
                     \* has returned), "exited", "panicked"
    term,            \* modes of the real terminal: alt, wheel, mouse, paste, raw, and
                     \* kbd, the keyboard enhancement flags pushed and not popped
    term_size,       \* size of the real terminal
    cursor_y,        \* row of the real terminal's cursor
    viewport_area,   \* Tui.terminal.viewport_area
    alt_saved_viewport, \* Tui.alt_saved_viewport: <<>> is None, <<r>> is Some(r)
    alt_screen_active,  \* Tui.alt_screen_active
    resume_pending,  \* Tui.resume_pending
    suspend_cursor_y,   \* Tui.suspend_cursor_y
    last_known_screen_size, \* Tui.terminal.last_known_screen_size
    last_known_cursor_y,    \* Tui.terminal.last_known_cursor_pos.y
    prepared_resume, \* draw's local prepared_resume: <<>> is None
    pending_viewport_area,  \* draw's local pending_viewport_area: <<>> is None
    oplog,           \* what the last operation on the Tui issued, in order (history)
    last_op,         \* the last operation on the Tui (history)
    inline_rect,     \* viewport_area before enter_alt_screen, while that call, made in
                     \* Inline mode, or the leave_alt_screen right after it, is the
                     \* last operation on the Tui (history)
    tui_result,      \* what App::run over the Tui returned: "none", "ok", "err"
    hook,            \* the panic hook of tui::init is installed
    exit_result,     \* what run_tui, or start, returned: "none", "ok", "err"
    modes_before     \* the modes set_modes enables, as they were when set_modes was
                     \* last called: <<>> before the first call (history)

framerVars == <<fed, buffer, chan, sent, rxAlive, pump, lastWrite>>
appVars == <<should_quit, follow_tail, vertical_scroll, tabs_index, logs_buffer, log_receiver>>
loopVars == <<uiPc, events, inputAlive, should_draw, frame_height, app_result>>
termVars == <<term, term_size, cursor_y>>
tuiVars == <<tuiPc, viewport_area, alt_saved_viewport, alt_screen_active, resume_pending,
             suspend_cursor_y, last_known_screen_size, last_known_cursor_y,
             prepared_resume, pending_viewport_area, tui_result>>
histVars == <<oplog, last_op, inline_rect>>
viewVars == <<termVars, tuiVars, histVars>>
lifeVars == <<hook, exit_result, modes_before>>
vars == <<framerVars, appVars, loopVars, viewVars, lifeVars>>

----------------------------------------------------------------------------
(* Bounds of the model *)

\* Most bytes the source delivers in the framer specification.
MaxFed == 4
\* Longest chunk of one write() call.
MaxChunk == 3
\* Most bytes the source delivers in the UI specification.
MaxFedUi == 3
\* Most input events queued to run_app at once.
MaxQueue == 2
\* Key-down events are generated while vertical_scroll is below this.
ScrollCap == 2
\* App::MAX_LOG_LINES is 65536 in the source and no live line of the code
\* reads it; the cap is checked at a scaled value so that an overflow of the
\* buffer is reachable.
MAX_LOG_LINES == 2

\* b'\n', the byte write() splits the buffer at.
NL == 10

\* Bytes the framer specification feeds: \n, \r, space, 'A', and the two bytes
\* of U+00A0 (0xC2 0xA0): each of the two alone is invalid UTF-8, together they
\* are one white-space character.
FramerBytes == {10, 13, 32, 65, 194, 160}
\* Bytes the UI specification feeds.
UiBytes == {10, 65}

RECURSIVE SeqsUpTo(_, _)
SeqsUpTo(S, n) ==
    IF n = 0 THEN {<<>>}
    ELSE LET shorter == SeqsUpTo(S, n - 1)
         IN shorter \cup {Append(s, b) : s \in {t \in shorter : Len(t) = n - 1}, b \in S}

Chunks(S, n) == SeqsUpTo(S, n) \ {<<>>}

Max(a, b) == IF a >= b THEN a ELSE b
Min(a, b) == IF a <= b THEN a ELSE b

----------------------------------------------------------------------------
(* Pure functions of the standard library the framer calls *)

IsCont(b) == b >= 128 /\ b <= 191

\* String::from_utf8(..).is_ok(): the well-formed byte sequences of UTF-8.
RECURSIVE ValidUtf8(_)
ValidUtf8(s) ==
    IF s = <<>> THEN TRUE
    ELSE LET b == s[1]
             n == Len(s)
             rest(k) == SubSeq(s, k + 1, n)
         IN  IF b <= 127 THEN ValidUtf8(rest(1))
             ELSE IF b >= 194 /\ b <= 223
                  THEN n >= 2 /\ IsCont(s[2]) /\ ValidUtf8(rest(2))
             ELSE IF b >= 224 /\ b <= 239
                  THEN /\ n >= 3
                       /\ IsCont(s[2]) /\ IsCont(s[3])
                       /\ (b = 224 => s[2] >= 160)
                       /\ (b = 237 => s[2] <= 159)
                       /\ ValidUtf8(rest(3))
             ELSE IF b >= 240 /\ b <= 244
                  THEN /\ n >= 4
                       /\ IsCont(s[2]) /\ IsCont(s[3]) /\ IsCont(s[4])
                       /\ (b = 240 => s[2] >= 144)
                       /\ (b = 244 => s[2] <= 143)
                       /\ ValidUtf8(rest(4))
             ELSE FALSE

\* Length in bytes of the white-space character (Unicode White_Space) that
\* ends the valid UTF-8 string s, 0 if s ends with none.
WsSuffixLen(s) ==
    LET n == Len(s)
    IN  IF n >= 1 /\ ((s[n] >= 9 /\ s[n] <= 13) \/ s[n] = 32) THEN 1
        ELSE IF n >= 2 /\ s[n - 1] = 194 /\ s[n] \in {133, 160} THEN 2
        ELSE IF n >= 3 /\ s[n - 2] = 225 /\ s[n - 1] = 154 /\ s[n] = 128 THEN 3
        ELSE IF n >= 3 /\ s[n - 2] = 226 /\ s[n - 1] = 128
                       /\ ((s[n] >= 128 /\ s[n] <= 138) \/ s[n] \in {168, 169, 175}) THEN 3
        ELSE IF n >= 3 /\ s[n - 2] = 226 /\ s[n - 1] = 129 /\ s[n] = 159 THEN 3
        ELSE IF n >= 3 /\ s[n - 2] = 227 /\ s[n - 1] = 128 /\ s[n] = 128 THEN 3
        ELSE 0

\* str::trim_end(): drops every trailing white-space character.
RECURSIVE trim_end(_)
trim_end(s) ==
    IF WsSuffixLen(s) = 0 THEN s
    ELSE trim_end(SubSeq(s, 1, Len(s) - WsSuffixLen(s)))

\* self.buffer.iter().position(|&b| b == b'\n'): 1-based, 0 for None.
position(s) ==
    IF \E i \in 1..Len(s) : s[i] = NL
    THEN CHOOSE i \in 1..Len(s) : s[i] = NL /\ \A j \in 1..(i - 1) : s[j] # NL
    ELSE 0

----------------------------------------------------------------------------
(* ChannelWriter::write *)

\* ChannelWriter::write with `if let` for `while let`: one line a call.
ChannelWriter_write_one_line(b, alive) ==
    LET i == position(b)
        line_bytes == SubSeq(b, 1, i)
        rest == SubSeq(b, i + 1, Len(b))
    IN  IF i = 0 THEN [buffer |-> b, lines |-> <<>>, err |-> FALSE]
        ELSE IF ValidUtf8(line_bytes)
             THEN IF alive
                  THEN [buffer |-> rest, lines |-> <<trim_end(line_bytes)>>, err |-> FALSE]
                  ELSE [buffer |-> rest, lines |-> <<>>, err |-> TRUE]
             ELSE [buffer |-> rest, lines |-> <<>>, err |-> FALSE]

\* ChannelWriter::write leaving its loop at a segment that is not UTF-8.
RECURSIVE ChannelWriter_write_stop_at_invalid(_, _)
ChannelWriter_write_stop_at_invalid(b, alive) ==
    LET i == position(b)
        line_bytes == SubSeq(b, 1, i)
        rest == SubSeq(b, i + 1, Len(b))
    IN  IF i = 0 THEN [buffer |-> b, lines |-> <<>>, err |-> FALSE]
        ELSE IF ValidUtf8(line_bytes)
             THEN IF alive
                  THEN LET r == ChannelWriter_write_stop_at_invalid(rest, alive)
                       IN  [r EXCEPT !.lines = <<trim_end(line_bytes)>> \o @]
                  ELSE [buffer |-> rest, lines |-> <<>>, err |-> TRUE]
             ELSE [buffer |-> rest, lines |-> <<>>, err |-> FALSE]

\* ChannelWriter::write sending what is left after the last newline as well.
RECURSIVE ChannelWriter_write_flush_tail(_, _)
ChannelWriter_write_flush_tail(b, alive) ==
    LET i == position(b)
        line_bytes == SubSeq(b, 1, i)
        rest == SubSeq(b, i + 1, Len(b))
    IN  IF i = 0
        THEN IF b # <<>> /\ ValidUtf8(b) /\ alive
             THEN [buffer |-> <<>>, lines |-> <<trim_end(b)>>, err |-> FALSE]
             ELSE [buffer |-> b, lines |-> <<>>, err |-> FALSE]
        ELSE IF ValidUtf8(line_bytes)
             THEN IF alive
                  THEN LET r == ChannelWriter_write_flush_tail(rest, alive)
                       IN  [r EXCEPT !.lines = <<trim_end(line_bytes)>> \o @]
                  ELSE [buffer |-> rest, lines |-> <<>>, err |-> TRUE]
             ELSE ChannelWriter_write_flush_tail(rest, alive)

\* ChannelWriter::write ignoring the result of send().
RECURSIVE ChannelWriter_write_ignore_send_error(_, _)
ChannelWriter_write_ignore_send_error(b, alive) ==
    LET i == position(b)
        line_bytes == SubSeq(b, 1, i)
        rest == SubSeq(b, i + 1, Len(b))
    IN  IF i = 0 THEN [buffer |-> b, lines |-> <<>>, err |-> FALSE]
        ELSE IF ValidUtf8(line_bytes) /\ alive
             THEN LET r == ChannelWriter_write_ignore_send_error(rest, alive)
                  IN  [r EXCEPT !.lines = <<trim_end(line_bytes)>> \o @]
             ELSE ChannelWriter_write_ignore_send_error(rest, alive)

\* The while loop of write() on the buffer b (the chunk already appended),
\* with the receiver alive or not: the buffer left, the lines sent, and
\* whether the loop returned the BrokenPipe error.
RECURSIVE ChannelWriter_write(_, _)
ChannelWriter_write(b, alive) ==
    LET i == position(b)
        line_bytes == SubSeq(b, 1, i)
        rest == SubSeq(b, i + 1, Len(b))
    IN  IF i = 0 THEN [buffer |-> b, lines |-> <<>>, err |-> FALSE]
        ELSE IF ValidUtf8(line_bytes)
             THEN IF alive
                  THEN LET r == ChannelWriter_write(rest, alive)
                       IN  [r EXCEPT !.lines = <<trim_end(line_bytes)>> \o @]
                  ELSE [buffer |-> rest, lines |-> <<>>, err |-> TRUE]
             ELSE ChannelWriter_write(rest, alive)

----------------------------------------------------------------------------
(* The log thread of App::setup_adb *)

\* One write() call of get_logs on the ChannelWriter with the chunk buf. An
\* error of write() ends get_logs, and with it the thread (the closure reports
\* it with eprintln! and returns).
Write(buf, limit) ==
    /\ pump = "streaming"
    /\ Len(fed) + Len(buf) <= limit
    /\ LET r == ChannelWriter_write(buffer \o buf, rxAlive)
       IN  /\ buffer' = r.buffer
           /\ chan' = IF rxAlive THEN chan \o r.lines ELSE chan
           /\ sent' = sent \o r.lines
           /\ lastWrite' = IF r.err THEN "broken_pipe" ELSE "ok"
           /\ pump' = IF r.err THEN "exited" ELSE pump
    /\ fed' = fed \o buf
    /\ UNCHANGED <<rxAlive, appVars, loopVars>>
    /\ UNCHANGED viewVars
    /\ UNCHANGED lifeVars

\* A disconnect after which the thread connects again and goes on with a new
\* ChannelWriter on the same channel.
Disconnect_reconnect ==
    /\ pump \in {"streaming", "exited"}
    /\ pump' = IF pump = "streaming" THEN "exited" ELSE "streaming"
    /\ UNCHANGED <<fed, buffer, chan, sent, rxAlive, lastWrite, appVars, loopVars>>
    /\ UNCHANGED viewVars
    /\ UNCHANGED lifeVars

\* The device disconnects or the transport fails: get_logs returns and the
\* thread ends. Nothing starts another one.
Disconnect ==
    /\ pump = "streaming"
    /\ pump' = "exited"
    /\ UNCHANGED <<fed, buffer, chan, sent, rxAlive, lastWrite, appVars, loopVars>>
    /\ UNCHANGED viewVars
    /\ UNCHANGED lifeVars

\* The Receiver is dropped (the App that owns it goes away); the lines still
\* queued go with it.
DropReceiver ==
    /\ rxAlive
    /\ log_receiver = "some"
    /\ rxAlive' = FALSE
    /\ chan' = <<>>
    /\ UNCHANGED <<fed, buffer, sent, pump, lastWrite, appVars, loopVars>>
    /\ UNCHANGED viewVars
    /\ UNCHANGED lifeVars

----------------------------------------------------------------------------
(* App *)

\* Line::from(log_line): a Line is modelled by the text it holds.
Line_from(log_line) == log_line

\* try_recv called once (`if let` for `while let`): one line a tick.
try_recv_one(q) == IF q = <<>> THEN <<>> ELSE <<Head(q)>>

\* The lines `while let Ok(log_line) = rx.try_recv()` receives from the queue
\* q: try_recv never waits, it yields the queued lines in order and then an
\* Err (Empty while the Sender lives, Disconnected once it is gone).
try_recv_all(q) == q

\* on_tick that appends the lines it received newest first.
on_tick_newest_first ==
    IF log_receiver = "some"
    THEN /\ logs_buffer' = logs_buffer \o [i \in 1..Len(try_recv_all(chan)) |->
                                Line_from(try_recv_all(chan)[Len(try_recv_all(chan)) + 1 - i])]
         /\ chan' = SubSeq(chan, Len(try_recv_all(chan)) + 1, Len(chan))
    ELSE UNCHANGED <<logs_buffer, chan>>

\* on_tick that reads the channel only while the log thread is alive.
on_tick_while_streaming ==
    IF log_receiver = "some" /\ pump = "streaming"
    THEN /\ logs_buffer' = logs_buffer \o [i \in 1..Len(try_recv_all(chan)) |-> Line_from(try_recv_all(chan)[i])]
         /\ chan' = SubSeq(chan, Len(try_recv_all(chan)) + 1, Len(chan))
    ELSE UNCHANGED <<logs_buffer, chan>>

\* App::on_tick
on_tick ==
    IF log_receiver = "some"
    THEN /\ logs_buffer' = logs_buffer \o [i \in 1..Len(try_recv_all(chan)) |-> Line_from(try_recv_all(chan)[i])]
         /\ chan' = SubSeq(chan, Len(try_recv_all(chan)) + 1, Len(chan))
    ELSE UNCHANGED <<logs_buffer, chan>>

\* scroll_down that turns tail following back on when the offset reaches the
\* last line.
scroll_down_refollow ==
    /\ vertical_scroll' = vertical_scroll + 1
    /\ follow_tail' = (vertical_scroll + 1 >= Len(logs_buffer))

\* App::scroll_down; saturating_add saturates at usize::MAX, out of the model's reach.
scroll_down ==
    /\ vertical_scroll' = vertical_scroll + 1
    /\ follow_tail' = FALSE

\* App::scroll_up
scroll_up ==
    /\ vertical_scroll' = Max(0, vertical_scroll - 1)
    /\ follow_tail' = FALSE

\* TabsState::next with the two titles of App::new
on_right == tabs_index' = (tabs_index + 1) % 2

\* App::on_key
on_key(c) == should_quit' = IF c = "q" THEN TRUE ELSE should_quit

\* Rows of the log panel inside its border: render gives the tab bar 3 rows,
\* draw_logs takes 2 rows off for the border.
InnerHeight(h) == Max(0, Max(0, h - 3) - 2)

\* max_scroll of draw_logs for a frame of h rows.
max_scroll(h) == Max(0, Len(logs_buffer) - InnerHeight(h))

\* draw_logs on a frame of h rows: what it leaves in vertical_scroll.
draw_logs(h) ==
    IF follow_tail THEN max_scroll(h)
    ELSE IF vertical_scroll > max_scroll(h) THEN max_scroll(h)
    ELSE vertical_scroll

\* ui::render on a frame of h rows: only the first tab draws the logs.
render(h) ==
    vertical_scroll' = IF tabs_index = 0 THEN draw_logs(h) ELSE vertical_scroll

\* App::scroll_left and App::scroll_right are called by handle_ui_event and
\* are not in the source; they follow the scroll contract of the design: tail
\* following off, the offset moved by one step and kept in [0, max_scroll].
scroll_sideways ==
    /\ follow_tail' = FALSE
    /\ \E d \in {-1, 1} :
         vertical_scroll' = Max(0, Min(max_scroll(frame_height), vertical_scroll + d))

----------------------------------------------------------------------------
(* start / run_app / handle_ui_event / input_thread *)

\* What event::read() yields, by the arm of handle_ui_event that takes it:
\* "down" is j or Down, "up" is k or Up, "side" is h, Left, l or Right, "tab"
\* is Tab, "q" is the q key, "other" is any other key or event.
Events == {"down", "up", "side", "tab", "q", "other"}

\* Rows the terminal can have.
Heights == {6, 7}

\* handle_ui_event
handle_ui_event(e) ==
    CASE e = "down" -> scroll_down /\ UNCHANGED <<should_quit, tabs_index>>
      [] e = "up" -> scroll_up /\ UNCHANGED <<should_quit, tabs_index>>
      [] e = "side" -> scroll_sideways /\ UNCHANGED <<should_quit, tabs_index>>
      [] e = "tab" -> on_right /\ UNCHANGED <<should_quit, follow_tail, vertical_scroll>>
      [] e = "q" -> on_key("q") /\ UNCHANGED <<tabs_index, follow_tail, vertical_scroll>>
      [] OTHER -> UNCHANGED <<should_quit, tabs_index, follow_tail, vertical_scroll>>

\* App::new followed by App::setup_adb in start(): the channel is created,
\* the App keeps the Receiver, the log thread is spawned with the Sender.
SetupAdb ==
    /\ uiPc = "start"
    /\ log_receiver' = "some"
    /\ pump' = "streaming"
    /\ uiPc' = "recv"
    /\ UNCHANGED <<fed, buffer, chan, sent, rxAlive, lastWrite>>
    /\ UNCHANGED <<should_quit, follow_tail, vertical_scroll, tabs_index, logs_buffer>>
    /\ UNCHANGED <<events, inputAlive, should_draw, frame_height, app_result>>
    /\ UNCHANGED viewVars
    /\ UNCHANGED lifeVars

\* input_thread: event::read() yields an event and it is sent to run_app.
\* run_app reads the queue only in recv_timeout and try_recv, so an event that
\* arrives elsewhere in the loop is one that arrives at the next recv_timeout.
InputThread(e) ==
    /\ inputAlive
    /\ uiPc \in {"recv", "drain"}
    /\ Len(events) < MaxQueue
    /\ (e = "down" => vertical_scroll < ScrollCap)
    /\ events' = Append(events, e)
    /\ UNCHANGED <<framerVars, appVars, uiPc, inputAlive, should_draw, frame_height, app_result>>
    /\ UNCHANGED viewVars
    /\ UNCHANGED lifeVars

\* input_thread: event::read() fails, the thread returns and drops its Sender.
InputThreadExit ==
    /\ inputAlive
    /\ inputAlive' = FALSE
    /\ UNCHANGED <<framerVars, appVars, uiPc, events, should_draw, frame_height, app_result>>
    /\ UNCHANGED viewVars
    /\ UNCHANGED lifeVars

\* run_app: recv_timeout returns an event; it is handled.
RecvEvent ==
    /\ uiPc = "recv"
    /\ events # <<>>
    /\ handle_ui_event(Head(events))
    /\ events' = Tail(events)
    /\ should_draw' = TRUE
    /\ uiPc' = "drain"
    /\ UNCHANGED <<framerVars, logs_buffer, log_receiver, inputAlive, frame_height, app_result>>
    /\ UNCHANGED viewVars
    /\ UNCHANGED lifeVars

\* run_app: the try_recv loop takes one more queued event.
DrainEvent ==
    /\ uiPc = "drain"
    /\ events # <<>>
    /\ handle_ui_event(Head(events))
    /\ events' = Tail(events)
    /\ UNCHANGED <<framerVars, logs_buffer, log_receiver, uiPc, inputAlive, should_draw, frame_height, app_result>>
    /\ UNCHANGED viewVars
    /\ UNCHANGED lifeVars

\* run_app: try_recv finds the queue empty, the loop ends.
DrainEnd ==
    /\ uiPc = "drain"
    /\ events = <<>>
    /\ uiPc' = "check"
    /\ UNCHANGED <<framerVars, appVars, events, inputAlive, should_draw, frame_height, app_result>>
    /\ UNCHANGED viewVars
    /\ UNCHANGED lifeVars

\* run_app: recv_timeout times out with no event queued; the tick runs.
RecvTimeout ==
    /\ uiPc = "recv"
    /\ events = <<>>
    /\ inputAlive
    /\ on_tick
    /\ should_draw' = TRUE
    /\ uiPc' = "check"
    /\ UNCHANGED <<fed, buffer, sent, rxAlive, pump, lastWrite>>
    /\ UNCHANGED <<should_quit, follow_tail, vertical_scroll, tabs_index, log_receiver>>
    /\ UNCHANGED <<events, inputAlive, frame_height, app_result>>
    /\ UNCHANGED viewVars
    /\ UNCHANGED lifeVars

\* run_app: recv_timeout finds the channel empty and its Sender gone.
RecvDisconnected ==
    /\ uiPc = "recv"
    /\ events = <<>>
    /\ ~inputAlive
    /\ uiPc' = "done"
    /\ app_result' = "ok"
    /\ UNCHANGED <<framerVars, appVars, events, inputAlive, should_draw, frame_height>>
    /\ UNCHANGED viewVars
    /\ UNCHANGED lifeVars

\* run_app testing should_quit after the draw: the frame is drawn first.
CheckQuit_after_draw ==
    /\ uiPc = "check"
    /\ IF should_quit /\ ~should_draw
       THEN uiPc' = "done" /\ app_result' = "ok"
       ELSE uiPc' = "draw" /\ UNCHANGED app_result
    /\ UNCHANGED <<framerVars, appVars, events, inputAlive, should_draw, frame_height>>
    /\ UNCHANGED viewVars
    /\ UNCHANGED lifeVars

\* run_app: if app.should_quit { break }
CheckQuit ==
    /\ uiPc = "check"
    /\ IF should_quit
       THEN uiPc' = "done" /\ app_result' = "ok"
       ELSE uiPc' = "draw" /\ UNCHANGED app_result
    /\ UNCHANGED <<framerVars, appVars, events, inputAlive, should_draw, frame_height>>
    /\ UNCHANGED viewVars
    /\ UNCHANGED lifeVars

\* run_app: terminal.draw(|frame| ui::render(frame, app)) succeeds. The frame
\* has the rows h the terminal has at the draw (the user may have resized it).
\* The next iteration clears should_draw.
Draw ==
    /\ uiPc = "draw"
    /\ IF should_draw
       THEN \E h \in Heights : frame_height' = h /\ render(h)
       ELSE UNCHANGED <<frame_height, vertical_scroll>>
    /\ should_draw' = FALSE
    /\ uiPc' = "recv"
    /\ UNCHANGED <<framerVars, should_quit, follow_tail, tabs_index, logs_buffer, log_receiver>>
    /\ UNCHANGED <<events, inputAlive, app_result>>
    /\ UNCHANGED viewVars
    /\ UNCHANGED lifeVars

\* run_app: terminal.draw fails and `?` returns the error; the failure comes
\* before render has run (the resize) or after it (the flush).
DrawFail ==
    /\ uiPc = "draw"
    /\ should_draw
    /\ \/ UNCHANGED <<frame_height, vertical_scroll>>
       \/ \E h \in Heights : frame_height' = h /\ render(h)
    /\ uiPc' = "done"
    /\ app_result' = "err"
    /\ UNCHANGED <<framerVars, should_quit, follow_tail, tabs_index, logs_buffer, log_receiver>>
    /\ UNCHANGED <<events, inputAlive, should_draw>>
    /\ UNCHANGED viewVars
    /\ UNCHANGED lifeVars

----------------------------------------------------------------------------
(* Tui: terminal modes, inline viewport and alternate screen (tui.rs) *)

\* Most rows, and most columns, the terminal has.
MaxRows == 2
\* Most calls of one operation on the Tui that fail.
MaxFail == 1
\* Most keyboard enhancement flags pushed and not popped.
MaxPushed == 2

\* Sizes the terminal can have.
TermSizes == {[width |-> n, height |-> n] : n \in 1..MaxRows}

\* Heights App::run asks draw for: one row inline, every row (u16::MAX) for a
\* full-screen overlay.
DrawHeights == {1, 65535}

\* The sets of at most k of the calls S.
RECURSIVE UpTo(_, _)
UpTo(S, k) ==
    IF k = 0 THEN {{}}
    ELSE UpTo(S, k - 1) \cup {F \cup {a} : F \in UpTo(S, k - 1), a \in S}

\* The sets of failing calls an operation with the calls S can meet.
FailSets(S) == UpTo(S, MaxFail)

\* ratatui Rect::new, Rect::bottom and Rect::offset; offset keeps y in
\* [0, u16::MAX - height].
Rect_new(x, y, w, h) == [x |-> x, y |-> y, width |-> w, height |-> h]
bottom(r) == r.y + r.height
offset(r, dy) == [r EXCEPT !.y = Max(0, Min(65535 - r.height, r.y + dy))]

\* What a command does to the modes of the terminal when its write succeeds.
Effect(t, call) ==
    CASE call = "EnterAlternateScreen" -> [t EXCEPT !.alt = TRUE]
      [] call = "LeaveAlternateScreen" -> [t EXCEPT !.alt = FALSE]
      [] call = "EnableAlternateScroll" -> [t EXCEPT !.wheel = TRUE]
      [] call = "DisableAlternateScroll" -> [t EXCEPT !.wheel = FALSE]
      [] call = "EnableMouseCapture" -> [t EXCEPT !.mouse = TRUE]
      [] call = "DisableMouseCapture" -> [t EXCEPT !.mouse = FALSE]
      [] call = "EnableBracketedPaste" -> [t EXCEPT !.paste = TRUE]
      [] call = "DisableBracketedPaste" -> [t EXCEPT !.paste = FALSE]
      [] call = "enable_raw_mode" -> [t EXCEPT !.raw = TRUE]
      [] call = "disable_raw_mode" -> [t EXCEPT !.raw = FALSE]
      [] call = "PushKeyboardEnhancementFlags" -> [t EXCEPT !.kbd = @ + 1]
      [] call = "PopKeyboardEnhancementFlags" -> [t EXCEPT !.kbd = Max(0, @ - 1)]
      [] OTHER -> t

\* An operation runs on a context: the terminal modes, the log of what it
\* issued, and err, set once a call failed under `?` (what follows in the
\* operation is skipped). Step(c, Op) is Op applied to the context c, skipped
\* when c.err is set.
Step(c, Op(_)) == CHOOSE r \in {IF v.err THEN v ELSE Op(v) : v \in {c}} : TRUE

\* `let _ = execute!(..)`: the call is made, its result is dropped.
execute(c, call, failed) ==
    Step(c, LAMBDA v : [v EXCEPT !.term = IF failed THEN @ ELSE Effect(@, call),
                                 !.log = Append(@, [call |-> call, ok |-> ~failed])])

\* `execute!(..)?`: the call is made, its failure is returned.
try(c, call, failed) ==
    Step(c, LAMBDA v : [v EXCEPT !.term = IF failed THEN @ ELSE Effect(@, call),
                                 !.log = Append(@, [call |-> call, ok |-> ~failed]),
                                 !.err = failed])

\* A step that is not a write to the terminal (a store, a signal).
note(c, what) ==
    Step(c, LAMBDA v : [v EXCEPT !.log = Append(@, [call |-> what, ok |-> TRUE])])

\* restore that leaves bracketed paste as it is.
restore_keep_paste(c, F) ==
    execute(try(try(execute(c,
        "LeaveAlternateScreen", "LeaveAlternateScreen" \in F),
        "DisableMouseCapture", "DisableMouseCapture" \in F),
        "disable_raw_mode", "disable_raw_mode" \in F),
        "PopKeyboardEnhancementFlags", "PopKeyboardEnhancementFlags" \in F)

\* tui::restore
restore(c, F) ==
    execute(try(try(try(execute(c,
        "LeaveAlternateScreen", "LeaveAlternateScreen" \in F),
        "DisableMouseCapture", "DisableMouseCapture" \in F),
        "DisableBracketedPaste", "DisableBracketedPaste" \in F),
        "disable_raw_mode", "disable_raw_mode" \in F),
        "PopKeyboardEnhancementFlags", "PopKeyboardEnhancementFlags" \in F)

\* tui::set_modes
set_modes(c, F) ==
    execute(try(try(try(try(c,
        "EnterAlternateScreen", "EnterAlternateScreen" \in F),
        "EnableMouseCapture", "EnableMouseCapture" \in F),
        "EnableBracketedPaste", "EnableBracketedPaste" \in F),
        "enable_raw_mode", "enable_raw_mode" \in F),
        "PushKeyboardEnhancementFlags", "PushKeyboardEnhancementFlags" \in F)

\* The modes set_modes enables, of the modes t.
Managed(t) ==
    [alt |-> t.alt, mouse |-> t.mouse, paste |-> t.paste, raw |-> t.raw, kbd |-> t.kbd]

\* suspend that sets the modes again before it signals the process.
suspend_set_modes_first(c, F) == note(set_modes(restore(c, F), F), "SIGTSTP")

\* Tui::suspend: restore()?, the stop signal, then set_modes()? once the
\* process has been continued.
suspend(c, F) == set_modes(note(restore(c, F), "SIGTSTP"), F)

\* The calls of the Ctrl+Z arm itself.
KeyCalls == {"DisableAlternateScroll", "leave", "MoveTo", "Show"}

\* The calls of restore and set_modes.
ModeCalls ==
    {"LeaveAlternateScreen", "DisableMouseCapture", "DisableBracketedPaste",
     "disable_raw_mode", "PopKeyboardEnhancementFlags",
     "EnterAlternateScreen", "EnableMouseCapture", "EnableBracketedPaste",
     "enable_raw_mode", "PushKeyboardEnhancementFlags"}

\* A fresh context for an operation.
Ctx == [term |-> term, log |-> <<>>, err |-> FALSE]

\* Rows of a terminal of size sz.
Rows(sz) == 0..(sz.height - 1)

\* enter_alt_screen that saves the viewport after it has been expanded.
enter_alt_screen_save_after ==
    /\ tuiPc = "idle"
    /\ \E F \in FailSets({"EnterAlternateScreen", "EnableAlternateScroll", "size", "clear"}) :
       \E c \in {execute(execute(Ctx,
                    "EnterAlternateScreen", "EnterAlternateScreen" \in F),
                    "EnableAlternateScroll", "EnableAlternateScroll" \in F)} :
         IF "size" \in F
         THEN /\ term' = c.term
              /\ oplog' = c.log
              /\ UNCHANGED <<alt_saved_viewport, viewport_area>>
         ELSE /\ alt_saved_viewport' = <<Rect_new(0, 0, term_size.width, term_size.height)>>
              /\ viewport_area' = Rect_new(0, 0, term_size.width, term_size.height)
              /\ \E d \in {execute(c, "Clear", "clear" \in F)} :
                   term' = d.term /\ oplog' = d.log
    /\ alt_screen_active' = TRUE
    /\ last_op' = IF alt_screen_active THEN "enter_from_alt" ELSE "enter_from_inline"
    /\ inline_rect' = IF alt_screen_active THEN <<>> ELSE <<viewport_area>>
    /\ UNCHANGED <<tuiPc, term_size, cursor_y, resume_pending, suspend_cursor_y>>
    /\ UNCHANGED <<last_known_screen_size, last_known_cursor_y, prepared_resume, pending_viewport_area, tui_result>>
    /\ UNCHANGED <<framerVars, appVars, loopVars, lifeVars>>

\* Tui::enter_alt_screen
enter_alt_screen ==
    /\ tuiPc = "idle"
    /\ \E F \in FailSets({"EnterAlternateScreen", "EnableAlternateScroll", "size", "clear"}) :
       \E c \in {execute(execute(Ctx,
                    "EnterAlternateScreen", "EnterAlternateScreen" \in F),
                    "EnableAlternateScroll", "EnableAlternateScroll" \in F)} :
         IF "size" \in F
         THEN /\ term' = c.term
              /\ oplog' = c.log
              /\ UNCHANGED <<alt_saved_viewport, viewport_area>>
         ELSE /\ alt_saved_viewport' = <<viewport_area>>
              /\ viewport_area' = Rect_new(0, 0, term_size.width, term_size.height)
              /\ \E d \in {execute(c, "Clear", "clear" \in F)} :
                   term' = d.term /\ oplog' = d.log
    /\ alt_screen_active' = TRUE
    /\ last_op' = IF alt_screen_active THEN "enter_from_alt" ELSE "enter_from_inline"
    /\ inline_rect' = IF alt_screen_active THEN <<>> ELSE <<viewport_area>>
    /\ UNCHANGED <<tuiPc, term_size, cursor_y, resume_pending, suspend_cursor_y>>
    /\ UNCHANGED <<last_known_screen_size, last_known_cursor_y, prepared_resume, pending_viewport_area, tui_result>>
    /\ UNCHANGED <<framerVars, appVars, loopVars, lifeVars>>

\* leave_alt_screen that drops the saved rectangle without restoring it.
leave_alt_screen_no_restore ==
    /\ tuiPc = "idle"
    /\ \E F \in FailSets({"DisableAlternateScroll", "LeaveAlternateScreen"}) :
       \E c \in {execute(execute(Ctx,
                    "DisableAlternateScroll", "DisableAlternateScroll" \in F),
                    "LeaveAlternateScreen", "LeaveAlternateScreen" \in F)} :
         term' = c.term /\ oplog' = c.log
    /\ viewport_area' = viewport_area
    /\ alt_saved_viewport' = <<>>
    /\ alt_screen_active' = FALSE
    /\ last_op' = "leave"
    /\ inline_rect' = IF last_op = "enter_from_inline" THEN inline_rect ELSE <<>>
    /\ UNCHANGED <<tuiPc, term_size, cursor_y, resume_pending, suspend_cursor_y>>
    /\ UNCHANGED <<last_known_screen_size, last_known_cursor_y, prepared_resume, pending_viewport_area, tui_result>>
    /\ UNCHANGED <<framerVars, appVars, loopVars, lifeVars>>

\* Tui::leave_alt_screen
leave_alt_screen ==
    /\ tuiPc = "idle"
    /\ \E F \in FailSets({"DisableAlternateScroll", "LeaveAlternateScreen"}) :
       \E c \in {execute(execute(Ctx,
                    "DisableAlternateScroll", "DisableAlternateScroll" \in F),
                    "LeaveAlternateScreen", "LeaveAlternateScreen" \in F)} :
         term' = c.term /\ oplog' = c.log
    /\ viewport_area' = IF alt_saved_viewport # <<>> THEN alt_saved_viewport[1] ELSE viewport_area
    /\ alt_saved_viewport' = <<>>
    /\ alt_screen_active' = FALSE
    /\ last_op' = "leave"
    /\ inline_rect' = IF last_op = "enter_from_inline" THEN inline_rect ELSE <<>>
    /\ UNCHANGED <<tuiPc, term_size, cursor_y, resume_pending, suspend_cursor_y>>
    /\ UNCHANGED <<last_known_screen_size, last_known_cursor_y, prepared_resume, pending_viewport_area, tui_result>>
    /\ UNCHANGED <<framerVars, appVars, loopVars, lifeVars>>

\* The Ctrl+Z arm with the alternate screen left before the wheel translation
\* is disabled.
ctrl_z_arm_leave_first(c, F) ==
    execute(execute(note(
        IF alt_screen_active
        THEN execute(execute(c, "LeaveAlternateScreen", "leave" \in F),
                     "DisableAlternateScroll", "DisableAlternateScroll" \in F)
        ELSE c,
        "resume_pending.store"),
        "MoveTo", "MoveTo" \in F),
        "Show", "Show" \in F)

\* Tui::event_stream, the Ctrl+Z arm up to Tui::suspend: in the alternate
\* screen the wheel translation and the screen are left, the intent is
\* stored, the cursor is shown on the row below the inline viewport.
ctrl_z_arm(c, F) ==
    execute(execute(note(
        IF alt_screen_active
        THEN execute(execute(c, "DisableAlternateScroll", "DisableAlternateScroll" \in F),
                     "LeaveAlternateScreen", "leave" \in F)
        ELSE c,
        "resume_pending.store"),
        "MoveTo", "MoveTo" \in F),
        "Show", "Show" \in F)

\* Tui::event_stream on Ctrl+Z: the arm above, then `let _ = Tui::suspend()`
\* and `yield TuiEvent::Draw`, whatever suspend returned.
\* (What the shell does to the terminal while the process is stopped shows as
\* TermResize and TermScroll steps after this one; nothing in set_modes reads
\* the size or the cursor.) Calls are the calls that can fail. modes_before
\* records the modes at the stop signal, which are those set_modes starts from.
ctrl_z(Calls) ==
    /\ tuiPc = "idle"
    /\ term.kbd < MaxPushed
    /\ \E F \in FailSets(Calls) :
       \E c \in {suspend(ctrl_z_arm(Ctx, F), F)}, r \in {restore(ctrl_z_arm(Ctx, F), F)} :
         /\ term' = c.term
         /\ oplog' = Append(c.log, [call |-> "yield_Draw", ok |-> TRUE])
         /\ cursor_y' = IF "MoveTo" \in F THEN cursor_y
                        ELSE Min(suspend_cursor_y, term_size.height - 1)
         /\ modes_before' = IF r.err THEN modes_before ELSE <<Managed(r.term)>>
    /\ resume_pending' = IF alt_screen_active THEN "RestoreAlt" ELSE "RealignInline"
    /\ last_op' = "suspend"
    /\ inline_rect' = <<>>
    /\ UNCHANGED <<tuiPc, term_size, viewport_area, alt_saved_viewport, alt_screen_active, suspend_cursor_y>>
    /\ UNCHANGED <<last_known_screen_size, last_known_cursor_y, prepared_resume, pending_viewport_area, tui_result>>
    /\ UNCHANGED <<framerVars, appVars, loopVars, hook, exit_result>>

\* What the terminal and the draw channel hand to Tui::event_stream: a press
\* of Ctrl+V, any other key event but the press of Ctrl+Z, a resize, a
\* paste, a mouse or focus event, a draw notification.
StreamInputs == {"CtrlV", "Key", "Resize", "Paste", "Mouse", "draw_rx"}

\* Tui::event_stream: what the arm of the event e yields. The arm of the
\* press of Ctrl+V has no statement left.
StreamYield(e) ==
    CASE e = "CtrlV" -> <<>>
      [] e = "Key" -> <<"yield_Key">>
      [] e = "Resize" -> <<"yield_Draw">>
      [] e = "Paste" -> <<"yield_Paste">>
      [] e = "draw_rx" -> <<"yield_Draw">>
      [] OTHER -> <<>>

\* Tui::event_stream taking one event other than the press of Ctrl+Z.
StreamEvent ==
    /\ tuiPc = "idle"
    /\ \E e \in StreamInputs :
         oplog' = <<[call |-> e, ok |-> TRUE]>>
                    \o [i \in 1..Len(StreamYield(e)) |-> [call |-> StreamYield(e)[i], ok |-> TRUE]]
    /\ last_op' = "event"
    /\ inline_rect' = <<>>
    /\ UNCHANGED <<tuiPc, term, term_size, cursor_y, viewport_area, alt_saved_viewport, alt_screen_active>>
    /\ UNCHANGED <<resume_pending, suspend_cursor_y>>
    /\ UNCHANGED <<last_known_screen_size, last_known_cursor_y, prepared_resume, pending_viewport_area, tui_result>>
    /\ UNCHANGED <<framerVars, appVars, loopVars, lifeVars>>

\* take_resume_action: the pending intent is swapped for None.
take_resume_action == resume_pending

\* Tui::prepare_resume_action: the prepared action, the saved rectangle it
\* leaves, and err when the cursor query of RealignInline failed.
prepare_resume_action(action, cursor_failed) ==
    CASE action = "RealignInline" ->
           [err |-> cursor_failed,
            prepared |-> IF cursor_failed THEN <<>>
                         ELSE <<[kind |-> "RealignViewport", area |-> Rect_new(0, cursor_y, 0, 0)]>>,
            saved |-> alt_saved_viewport]
      [] action = "RestoreAlt" ->
           [err |-> FALSE,
            prepared |-> <<[kind |-> "RestoreAltScreen"]>>,
            saved |-> IF ~cursor_failed /\ alt_saved_viewport # <<>>
                      THEN <<[alt_saved_viewport[1] EXCEPT !.y = cursor_y]>>
                      ELSE alt_saved_viewport]
      [] OTHER ->
           [err |-> FALSE, prepared |-> <<>>, saved |-> alt_saved_viewport]

\* Tui::draw before the synchronized update: the area the viewport is to be
\* moved to, None when the screen size is the last known one or the cursor
\* row has not moved.
realign_on_resize ==
    IF term_size # last_known_screen_size /\ cursor_y # last_known_cursor_y
    THEN <<offset(viewport_area, cursor_y - last_known_cursor_y)>>
    ELSE <<>>

\* Tui::draw up to the synchronized update: the resume intent is taken and
\* prepared, the realignment after a resize is computed. A failed query
\* returns from draw, and `?` in App::run returns from the loop.
TuiDrawPrepare ==
    /\ tuiPc = "idle"
    /\ \E F \in FailSets({"cursor_resume", "size", "cursor_resize"}) :
       \E prep \in {prepare_resume_action(take_resume_action, "cursor_resume" \in F)} :
         /\ alt_saved_viewport' = prep.saved
         /\ IF \/ prep.err
               \/ "size" \in F
               \/ term_size # last_known_screen_size /\ "cursor_resize" \in F
            THEN /\ tuiPc' = "done" /\ tui_result' = "err"
                 /\ prepared_resume' = <<>> /\ pending_viewport_area' = <<>>
            ELSE /\ tuiPc' = "sync" /\ tui_result' = tui_result
                 /\ prepared_resume' = prep.prepared
                 /\ pending_viewport_area' = realign_on_resize
    /\ resume_pending' = "None"
    /\ oplog' = <<>>
    /\ last_op' = "draw"
    /\ inline_rect' = <<>>
    /\ UNCHANGED <<termVars, viewport_area, alt_screen_active, suspend_cursor_y>>
    /\ UNCHANGED <<last_known_screen_size, last_known_cursor_y>>
    /\ UNCHANGED <<framerVars, appVars, loopVars, lifeVars>>

\* terminal.set_viewport_area(area)
set_viewport_area(c, area) == Step(c, LAMBDA v : [v EXCEPT !.vp = area])

\* Tui::apply_prepared_resume_action
apply_prepared_resume_action(c, prepared, F) ==
    IF prepared.kind = "RealignViewport"
    THEN note(set_viewport_area(c, prepared.area), "applied")
    ELSE note(
           Step(try(try(c, "EnterAlternateScreen", "EnterAlternateScreen" \in F),
                    "EnableAlternateScroll", "EnableAlternateScroll" \in F),
                LAMBDA v : IF "size_resume" \in F THEN v
                           ELSE try(set_viewport_area(v, Rect_new(0, 0, term_size.width, term_size.height)),
                                    "Clear", "clear_resume" \in F)),
           "applied")

\* Tui::draw, the closure run inside sync_update, up to the size query: the
\* prepared resume action is applied, then the realignment.
draw_realign(c, F) ==
    Step(Step(Step(c,
        LAMBDA v : IF prepared_resume # <<>>
                   THEN apply_prepared_resume_action(v, prepared_resume[1], F)
                   ELSE v),
        LAMBDA v : IF pending_viewport_area # <<>>
                   THEN try(set_viewport_area(v, pending_viewport_area[1]), "Clear", "clear_pending" \in F)
                   ELSE v),
        LAMBDA v : [v EXCEPT !.err = "size_sync" \in F])

\* frame_area that leaves a viewport ending below the last row where it is.
frame_area_no_move_up(vp, height) ==
    [vp EXCEPT !.height = Min(height, term_size.height),
               !.width = term_size.width]

\* Tui::draw: the area of the viewport for a frame of `height` rows, from the
\* viewport vp: as wide as the terminal, no higher than it, moved up when it
\* would end below the last row.
frame_area(vp, height) ==
    LET sized == [vp EXCEPT !.height = Min(height, term_size.height),
                            !.width = term_size.width]
    IN  IF bottom(sized) > term_size.height
        THEN [sized EXCEPT !.y = term_size.height - sized.height]
        ELSE sized

\* Tui::draw: the row stored in suspend_cursor_y.
inline_area_bottom(area) ==
    IF alt_screen_active /\ alt_saved_viewport # <<>>
    THEN Max(0, bottom(alt_saved_viewport[1]) - 1)
    ELSE Max(0, bottom(area) - 1)

\* Tui::draw, the closure run inside sync_update from the size query on; the
\* frame leaves the cursor on the first or the last row of the viewport, and
\* the terminal records the size and the cursor row of the draw.
draw_frame(c, height, F, cursor_last) ==
    Step(Step(Step(Step(c,
        LAMBDA v : IF v.vp.y + Min(height, term_size.height) > term_size.height
                   THEN try(v, "ScrollRegionUp", "ScrollRegionUp" \in F)
                   ELSE v),
        LAMBDA v : IF frame_area(v.vp, height) # v.vp
                   THEN set_viewport_area(try(v, "Clear", "clear_area" \in F), frame_area(v.vp, height))
                   ELSE v),
        LAMBDA v : try([v EXCEPT !.scy = inline_area_bottom(v.vp)], "Frame", "Frame" \in F)),
        LAMBDA v : [v EXCEPT !.cur = IF cursor_last THEN bottom(v.vp) - 1 ELSE v.vp.y,
                             !.lks = term_size,
                             !.lkc = IF cursor_last THEN bottom(v.vp) - 1 ELSE v.vp.y])

\* sync_update that ends the update only when the closure returned Ok.
sync_update_end_on_ok(c, height, F, cursor_last) ==
    try(draw_frame(draw_realign(
            try(c, "BeginSynchronizedUpdate", "BeginSynchronizedUpdate" \in F), F),
            height, F, cursor_last),
        "EndSynchronizedUpdate", "EndSynchronizedUpdate" \in F)

\* crossterm sync_update around the closure of Tui::draw:
\* BeginSynchronizedUpdate is queued, the closure runs, EndSynchronizedUpdate
\* is executed; a failed begin returns before the closure runs, the closure's
\* own Result is handed back after the end.
sync_update(c, height, F, cursor_last) ==
    CHOOSE r \in
        {IF b.err THEN b
         ELSE CHOOSE e \in
                {[try([d EXCEPT !.err = FALSE], "EndSynchronizedUpdate", "EndSynchronizedUpdate" \in F)
                    EXCEPT !.err = @ \/ d.err] :
                 d \in {draw_frame(draw_realign(b, F), height, F, cursor_last)}} : TRUE :
         b \in {try(c, "BeginSynchronizedUpdate", "BeginSynchronizedUpdate" \in F)}} : TRUE

\* The calls of the synchronized update that can fail.
SyncCalls ==
    {"BeginSynchronizedUpdate", "EnterAlternateScreen", "EnableAlternateScroll",
     "size_resume", "clear_resume", "clear_pending", "size_sync", "ScrollRegionUp",
     "clear_area", "Frame", "EndSynchronizedUpdate"}

\* Tui::draw, the synchronized update. An Err returns from draw, and `?` in
\* App::run returns from the loop.
TuiDrawSync ==
    /\ tuiPc = "sync"
    /\ \E F \in FailSets(SyncCalls), height \in DrawHeights, cursor_last \in BOOLEAN :
       \E c \in {sync_update([term |-> term, log |-> oplog, err |-> FALSE,
                              vp |-> viewport_area, cur |-> cursor_y,
                              lks |-> last_known_screen_size, lkc |-> last_known_cursor_y,
                              scy |-> suspend_cursor_y],
                             height, F, cursor_last)} :
         /\ term' = c.term
         /\ oplog' = c.log
         /\ viewport_area' = c.vp
         /\ cursor_y' = c.cur
         /\ last_known_screen_size' = c.lks
         /\ last_known_cursor_y' = c.lkc
         /\ suspend_cursor_y' = c.scy
         /\ IF c.err
            THEN tuiPc' = "done" /\ tui_result' = "err"
            ELSE tuiPc' = "idle" /\ tui_result' = tui_result
    /\ prepared_resume' = <<>>
    /\ pending_viewport_area' = <<>>
    /\ UNCHANGED <<term_size, alt_saved_viewport, alt_screen_active, resume_pending>>
    /\ UNCHANGED <<last_op, inline_rect>>
    /\ UNCHANGED <<framerVars, appVars, loopVars, lifeVars>>

\* The user resizes the terminal; the rewrap puts the cursor on any row.
TermResize ==
    /\ tuiPc = "idle"
    /\ \E sz \in TermSizes \ {term_size} : \E row \in Rows(sz) :
         term_size' = sz /\ cursor_y' = row
    /\ UNCHANGED <<term, tuiVars, histVars>>
    /\ UNCHANGED <<framerVars, appVars, loopVars, lifeVars>>

\* The terminal scrolls or inserts lines: the cursor row shifts, the size stays.
TermScroll ==
    /\ tuiPc = "idle"
    /\ \E row \in Rows(term_size) \ {cursor_y} : cursor_y' = row
    /\ UNCHANGED <<term, term_size, tuiVars, histVars>>
    /\ UNCHANGED <<framerVars, appVars, loopVars, lifeVars>>

----------------------------------------------------------------------------
(* Startup, exit and panic of run_tui (main.rs, tui.rs); exit of start *)

\* The modes of a terminal no program has changed.
DefaultModes ==
    [alt |-> FALSE, wheel |-> FALSE, mouse |-> FALSE, paste |-> FALSE, raw |-> FALSE, kbd |-> 0]

\* The modes after set_modes on DefaultModes.
TuiModes ==
    [alt |-> TRUE, wheel |-> FALSE, mouse |-> TRUE, paste |-> TRUE, raw |-> TRUE, kbd |-> 1]

\* The modes after the setup of start: enable_raw_mode,
\* execute!(EnterAlternateScreen, EnableMouseCapture).
StartModes ==
    [alt |-> TRUE, wheel |-> FALSE, mouse |-> TRUE, paste |-> FALSE, raw |-> TRUE, kbd |-> 0]

\* The calls of restore, and the calls of tui::init and of the clear that
\* follows it in run_tui.
RestoreCalls ==
    {"LeaveAlternateScreen", "DisableMouseCapture", "DisableBracketedPaste",
     "disable_raw_mode", "PopKeyboardEnhancementFlags"}
InitCalls ==
    {"EnterAlternateScreen", "EnableMouseCapture", "EnableBracketedPaste",
     "enable_raw_mode", "PushKeyboardEnhancementFlags",
     "cursor_position", "ScrollUp", "MoveTo", "with_options", "clear"}

\* run_tui: tui::init()?, terminal.clear()?, Tui::new. init sets the modes,
\* installs the panic hook, scrolls the lines above the cursor out and puts
\* the cursor at (0, 0); the terminal starts with the empty viewport on the
\* cursor row. An error of any `?` returns from run_tui.
TuiInit ==
    /\ tuiPc = "boot"
    /\ \E F \in FailSets(InitCalls) :
       \E m \in {set_modes(Ctx, F)} :
       \E c \in {try(try(try(
                    Step(note(m, "set_panic_hook"),
                         LAMBDA v : IF "cursor_position" \notin F /\ cursor_y > 0
                                    THEN try(v, "ScrollUp", "ScrollUp" \in F)
                                    ELSE v),
                    "MoveTo", "MoveTo" \in F),
                    "with_options", "with_options" \in F),
                    "Clear", "clear" \in F)} :
         /\ term' = c.term
         /\ oplog' = c.log
         /\ hook' = ~m.err
         /\ cursor_y' = IF \E i \in 1..Len(c.log) : c.log[i] = [call |-> "MoveTo", ok |-> TRUE]
                        THEN 0 ELSE cursor_y
         /\ IF c.err
            THEN tuiPc' = "exited" /\ exit_result' = "err"
            ELSE tuiPc' = "idle" /\ exit_result' = exit_result
    /\ modes_before' = <<Managed(term)>>
    /\ viewport_area' = Rect_new(0, 0, 0, 0)
    /\ last_known_screen_size' = term_size
    /\ last_known_cursor_y' = 0
    /\ last_op' = "init"
    /\ UNCHANGED <<term_size, alt_saved_viewport, alt_screen_active, resume_pending, suspend_cursor_y>>
    /\ UNCHANGED <<prepared_resume, pending_viewport_area, inline_rect, tui_result>>
    /\ UNCHANGED <<framerVars, appVars, loopVars>>

\* App::run: the loop ends (a handler returned Ok(false)), the terminal is
\* cleared and run returns Ok, or the error of the clear.
RunReturns ==
    /\ tuiPc = "idle"
    /\ \E failed \in BOOLEAN :
       \E c \in {try(Ctx, "Clear", failed)} :
         /\ term' = c.term
         /\ oplog' = c.log
         /\ tui_result' = IF failed THEN "err" ELSE "ok"
    /\ tuiPc' = "done"
    /\ last_op' = "run_returns"
    /\ inline_rect' = <<>>
    /\ UNCHANGED <<term_size, cursor_y, viewport_area, alt_saved_viewport, alt_screen_active>>
    /\ UNCHANGED <<resume_pending, suspend_cursor_y, last_known_screen_size, last_known_cursor_y>>
    /\ UNCHANGED <<prepared_resume, pending_viewport_area>>
    /\ UNCHANGED <<framerVars, appVars, loopVars, lifeVars>>

\* The Tui is dropped (run_tui returns, or the process ends): its fields and
\* those of its terminal are gone, they read as Tui::new made them.
TuiDropped ==
    /\ viewport_area' = Rect_new(0, 0, 0, 0)
    /\ alt_saved_viewport' = <<>>
    /\ alt_screen_active' = FALSE
    /\ resume_pending' = "None"
    /\ suspend_cursor_y' = 0
    /\ last_known_screen_size' = term_size
    /\ last_known_cursor_y' = 0
    /\ prepared_resume' = <<>>
    /\ pending_viewport_area' = <<>>
    /\ inline_rect' = <<>>

\* run_tui returning the error of App::run before it restores the terminal.
Exit_restore_on_ok ==
    /\ tuiPc = "done"
    /\ \E F \in FailSets(RestoreCalls) :
       \E c \in {IF tui_result = "err" THEN Ctx ELSE restore(Ctx, F)} :
         term' = c.term /\ oplog' = c.log
    /\ exit_result' = tui_result
    /\ tuiPc' = "exited"
    /\ last_op' = "exit"
    /\ TuiDropped
    /\ UNCHANGED <<term_size, cursor_y, tui_result>>
    /\ UNCHANGED <<framerVars, appVars, loopVars, hook, modes_before>>

\* run_tui once App::run has returned: restore() of main.rs calls
\* tui::restore and reports its error, then run_tui returns app_result.
Exit ==
    /\ tuiPc = "done"
    /\ \E F \in FailSets(RestoreCalls) :
       \E c \in {restore(Ctx, F)} :
         term' = c.term /\ oplog' = c.log
    /\ exit_result' = tui_result
    /\ tuiPc' = "exited"
    /\ last_op' = "exit"
    /\ TuiDropped
    /\ UNCHANGED <<term_size, cursor_y, tui_result>>
    /\ UNCHANGED <<framerVars, appVars, loopVars, hook, modes_before>>

\* A panic with the hook that was installed before tui::init only.
Panic_report_only ==
    /\ tuiPc \in {"idle", "sync", "done"}
    /\ \E F \in FailSets(RestoreCalls) :
       \E c \in {note(Ctx,
                       "prev_hook")} :
         term' = c.term /\ oplog' = c.log
    /\ tuiPc' = "panicked"
    /\ last_op' = "panic"
    /\ TuiDropped
    /\ UNCHANGED <<term_size, cursor_y, tui_result>>
    /\ UNCHANGED <<framerVars, appVars, loopVars, lifeVars>>

\* A panic while run_tui is between tui::init and its return: the hook of
\* set_panic_hook runs `let _ = restore()` and then the hook installed before
\* it, which reports; the process exits.
Panic ==
    /\ tuiPc \in {"idle", "sync", "done"}
    /\ \E F \in FailSets(RestoreCalls) :
       \E c \in {note(IF hook THEN [restore(Ctx, F) EXCEPT !.err = FALSE] ELSE Ctx,
                       "prev_hook")} :
         term' = c.term /\ oplog' = c.log
    /\ tuiPc' = "panicked"
    /\ last_op' = "panic"
    /\ TuiDropped
    /\ UNCHANGED <<term_size, cursor_y, tui_result>>
    /\ UNCHANGED <<framerVars, appVars, loopVars, lifeVars>>

\* start once run_app has returned: disable_raw_mode()?, one execute! with
\* LeaveAlternateScreen and DisableMouseCapture, show_cursor()?; the error of
\* run_app is printed and start returns Ok(()).
StartRestore ==
    /\ uiPc = "done"
    /\ \E F \in FailSets({"disable_raw_mode", "execute", "show_cursor"}) :
       \E c \in {try(try(try(try(Ctx,
                    "disable_raw_mode", "disable_raw_mode" \in F),
                    "LeaveAlternateScreen", "execute" \in F),
                    "DisableMouseCapture", "execute" \in F),
                    "Show", "show_cursor" \in F)} :
         /\ term' = c.term
         /\ oplog' = IF app_result = "err" THEN note(c, "println").log ELSE c.log
         /\ exit_result' = IF c.err THEN "err" ELSE "ok"
    /\ uiPc' = "returned"
    /\ last_op' = "start_restore"
    /\ UNCHANGED <<framerVars, appVars, events, inputAlive, should_draw, frame_height, app_result>>
    /\ UNCHANGED <<term_size, cursor_y, tuiVars, inline_rect, hook, modes_before>>

----------------------------------------------------------------------------
(* Specifications *)

\* The state start() is in after App::new, with the input thread spawned and
\* the terminal created.
UiInit ==
    /\ fed = <<>> /\ buffer = <<>> /\ chan = <<>> /\ sent = <<>>
    /\ rxAlive = TRUE /\ pump = "unspawned" /\ lastWrite = "none"
    /\ uiPc = "start" /\ events = <<>> /\ inputAlive = TRUE
    /\ should_draw = FALSE /\ should_quit = FALSE
    /\ follow_tail = TRUE /\ vertical_scroll = 0 /\ tabs_index = 0
    /\ logs_buffer = <<>> /\ log_receiver = "none"
    /\ frame_height \in Heights
    /\ app_result = "none"

\* The fields of the Tui and of its terminal as Tui::new and with_options
\* leave them with the cursor on the first row.
ViewFields ==
    /\ term_size \in TermSizes
    /\ viewport_area = Rect_new(0, 0, 0, 0)
    /\ alt_saved_viewport = <<>>
    /\ alt_screen_active = FALSE
    /\ resume_pending = "None"
    /\ suspend_cursor_y = 0
    /\ last_known_screen_size = term_size
    /\ last_known_cursor_y = 0
    /\ prepared_resume = <<>>
    /\ pending_viewport_area = <<>>
    /\ oplog = <<>>
    /\ last_op = "init"
    /\ inline_rect = <<>>
    /\ tui_result = "none"
    /\ exit_result = "none"

\* The state run_tui is in after tui::init and Tui::new: set_modes has set the
\* modes of the terminal, the panic hook is installed, the cursor is at (0, 0)
\* and the inline viewport is the empty rectangle on the cursor row.
ViewInit ==
    /\ ViewFields
    /\ tuiPc = "idle"
    /\ cursor_y = 0
    /\ term = TuiModes
    /\ hook = TRUE
    /\ modes_before = <<Managed(DefaultModes)>>

\* start after its setup of the terminal and App::new; no Tui is made.
Init ==
    /\ UiInit
    /\ ViewFields /\ term_size.height = 1
    /\ tuiPc = "idle"
    /\ cursor_y = 0
    /\ term = StartModes
    /\ hook = FALSE
    /\ modes_before = <<>>

\* The UI loop with the log thread feeding it.
WriteUi == \E buf \in Chunks(UiBytes, MaxChunk) : Write(buf, MaxFedUi)
InputThreadEvent == \E e \in Events : InputThread(e)

Next ==
    \/ SetupAdb
    \/ WriteUi
    \/ Disconnect
    \/ InputThreadEvent
    \/ InputThreadExit
    \/ RecvEvent
    \/ DrainEvent
    \/ DrainEnd
    \/ RecvTimeout
    \/ RecvDisconnected
    \/ CheckQuit
    \/ Draw
    \/ DrawFail
    \/ StartRestore

Spec == Init /\ [][Next]_vars

\* The steps of the thread that runs start and run_app.
LoopStep ==
    \/ SetupAdb
    \/ RecvEvent
    \/ DrainEvent
    \/ DrainEnd
    \/ RecvTimeout
    \/ RecvDisconnected
    \/ CheckQuit
    \/ Draw
    \/ DrawFail
    \/ StartRestore

\* The loop with its thread scheduled: a step of run_app that can be taken
\* is taken in the end. Nothing makes the log thread write, the input thread
\* deliver or a draw succeed, and recv_timeout hands out a queued event
\* before it looks at its timeout, so no fairness is asked of RecvTimeout on
\* its own.
SpecFair == Spec /\ WF_vars(LoopStep)

\* The framer on its own: the source writes chunks of any bytes, the consumer
\* drains the channel with on_tick or drops the Receiver at any time.
WriteFramer == \E buf \in Chunks(FramerBytes, MaxChunk) : Write(buf, MaxFed)

Tick ==
    /\ log_receiver = "some"
    /\ rxAlive
    /\ on_tick
    /\ UNCHANGED <<fed, buffer, sent, rxAlive, pump, lastWrite>>
    /\ UNCHANGED <<should_quit, follow_tail, vertical_scroll, tabs_index, log_receiver>>
    /\ UNCHANGED loopVars
    /\ UNCHANGED viewVars
    /\ UNCHANGED lifeVars

NextFramer ==
    \/ SetupAdb
    \/ WriteFramer
    \/ Disconnect
    \/ DropReceiver
    \/ Tick

SpecFramer == Init /\ [][NextFramer]_vars

\* App::run over the Tui: draws, the alternate screen entered and left, Ctrl+Z
\* suspends, and the terminal resized or scrolled by its user.
InitTui == UiInit /\ frame_height = 6 /\ ViewInit

\* A Ctrl+Z in which restore and set_modes meet no failure.
CtrlZ == ctrl_z(KeyCalls)

NextTui ==
    \/ enter_alt_screen
    \/ leave_alt_screen
    \/ CtrlZ
    \/ TuiDrawPrepare
    \/ TuiDrawSync
    \/ TermResize
    \/ TermScroll

SpecTui == InitTui /\ [][NextTui]_vars

\* The event stream of the Tui with the operations its events lead to.
NextStream ==
    \/ StreamEvent
    \/ CtrlZ
    \/ enter_alt_screen
    \/ leave_alt_screen
    \/ TuiDrawPrepare
    \/ TuiDrawSync

SpecStream == InitTui /\ [][NextStream]_vars

\* run_tui from before tui::init to its return or a panic: the operations of
\* SpecTui on a terminal its user leaves alone, with restore and set_modes
\* meeting failures too.
InitLife ==
    /\ UiInit /\ frame_height = 6
    /\ ViewFields /\ term_size.height = MaxRows
    /\ tuiPc = "boot"
    /\ cursor_y \in Rows(term_size)
    /\ term = DefaultModes
    /\ hook = FALSE
    /\ modes_before = <<>>

\* The calls of the Ctrl+Z arm with those of restore and set_modes.
CtrlZCalls ==
    {"DisableAlternateScroll", "leave", "MoveTo", "Show",
     "LeaveAlternateScreen", "DisableMouseCapture", "DisableBracketedPaste",
     "disable_raw_mode", "PopKeyboardEnhancementFlags",
     "EnterAlternateScreen", "EnableMouseCapture", "EnableBracketedPaste",
     "enable_raw_mode", "PushKeyboardEnhancementFlags"}

CtrlZModes == ctrl_z(CtrlZCalls)

NextLife ==
    \/ TuiInit
    \/ enter_alt_screen
    \/ leave_alt_screen
    \/ CtrlZModes
    \/ TuiDrawPrepare
    \/ TuiDrawSync
    \/ RunReturns
    \/ Exit
    \/ Panic

SpecLife == InitLife /\ [][NextLife]_vars

\* The program is start, with its loop, or run_tui, with its Tui: the states
\* of start have no modes recorded by tui::init and no Tui to boot.
InStart == tuiPc = "idle" /\ modes_before = <<>>

NextProgram ==
    \/ InStart /\ Next
    \/ ~InStart /\ NextLife

SpecProgram == (Init \/ InitLife) /\ [][NextProgram]_vars


----------------------------------------------------------------------------
(* What the byte stream holds, computed byte by byte from the history fed *)

\* The newline-terminated segments of s, each with its newline, in order.
RECURSIVE SplitAcc(_, _, _)
SplitAcc(s, cur, out) ==
    IF s = <<>> THEN out
    ELSE IF Head(s) = 10
         THEN SplitAcc(Tail(s), <<>>, Append(out, Append(cur, 10)))
         ELSE SplitAcc(Tail(s), Append(cur, Head(s)), out)

Segments(s) == SplitAcc(s, <<>>, <<>>)

\* The bytes of s after its last newline.
RECURSIVE PartialTail(_)
PartialTail(s) ==
    IF s = <<>> \/ s[Len(s)] = 10 THEN <<>>
    ELSE Append(PartialTail(SubSeq(s, 1, Len(s) - 1)), s[Len(s)])

ValidSegments(s) == SelectSeq(Segments(s), ValidUtf8)

\* A segment without its newline and without one carriage return before it.
StripLineEnding(seg) ==
    LET n == Len(seg) - 1
    IN  IF n >= 1 /\ seg[n] = 13 THEN SubSeq(seg, 1, n - 1) ELSE SubSeq(seg, 1, n)

\* The chunk a step passes to write(), empty if the step is no write().
ChunkOfStep == SubSeq(fed', Len(fed) + 1, Len(fed'))

IsSuffix(t, s) == Len(t) <= Len(s) /\ t = SubSeq(s, Len(s) - Len(t) + 1, Len(s))

----------------------------------------------------------------------------
(* Claims on the line framer, checked under SpecFramer *)

\* C1: when the bytes fed so far are exactly N newline-terminated valid UTF-8
\* lines with no partial line after them, exactly N lines have been emitted
\* into the channel, the i-th emitted line being the i-th line of the bytes,
\* whatever chunks the bytes arrived in.
C1_EveryLineEmittedInOrder ==
    (rxAlive /\ PartialTail(fed) = <<>> /\ ValidSegments(fed) = Segments(fed))
        => /\ Len(sent) = Len(Segments(fed))
           /\ \A i \in 1..Len(sent) : sent[i] = trim_end(Segments(fed)[i])
           /\ logs_buffer \o chan = sent

C1_Witness ==
    /\ rxAlive /\ PartialTail(fed) = <<>> /\ ValidSegments(fed) = Segments(fed)
    /\ Len(Segments(fed)) = 2
    /\ Len(sent) = 2 /\ sent[1] # sent[2]

\* C2: every emitted line is its segment without the newline and without one
\* carriage return before it, any other trailing character kept.
C2_OnlyLineEndingStripped ==
    rxAlive =>
        /\ Len(sent) = Len(ValidSegments(fed))
        /\ \A i \in 1..Len(sent) : sent[i] = StripLineEnding(ValidSegments(fed)[i])

\* C3: an invalid UTF-8 segment is dropped without an event and without an
\* error, it does not stay in the buffer, and the valid segments, those after
\* it included, are all emitted in order.
C3_InvalidSegmentDropped ==
    rxAlive =>
        /\ lastWrite # "broken_pipe"
        /\ \A i \in 1..Len(buffer) : buffer[i] # 10
        /\ Len(sent) = Len(ValidSegments(fed))
        /\ \A i \in 1..Len(sent) : sent[i] = trim_end(ValidSegments(fed)[i])

C3_Witness ==
    /\ rxAlive
    /\ Len(Segments(fed)) = 2
    /\ ~ValidUtf8(Segments(fed)[1])
    /\ ValidUtf8(Segments(fed)[2])
    /\ Len(sent) = 1 /\ sent[1] # <<>>
    /\ lastWrite = "ok"

\* The bytes after the last newline stay in the buffer and are not
\* emitted: a write() without a newline emits nothing and appends to the
\* buffer, and a write() that brings the newline emits the held bytes as the
\* beginning of the line it completes.
C4_Step ==
    LET chunk == ChunkOfStep
        hasNl == \E i \in 1..Len(chunk) : chunk[i] = 10
        first == Segments(buffer \o chunk)[1]
    IN  /\ IsSuffix(PartialTail(fed'), buffer')
        /\ lastWrite' # "broken_pipe" => buffer' = PartialTail(fed')
        /\ ~hasNl => sent' = sent /\ buffer' = buffer \o chunk
        /\ Len(sent') <= Len(Segments(fed'))
        /\ (hasNl /\ rxAlive /\ lastWrite # "broken_pipe" /\ ValidUtf8(first))
               => /\ Len(sent') > Len(sent)
                  /\ sent'[Len(sent) + 1] = trim_end(first)
                  /\ IsSuffix(buffer, SubSeq(first, 1, Len(buffer)))

\* C4: every step keeps the partial line after the last newline in the buffer,
\* unemitted until the write() that brings its newline (C4_Step).
C4_PartialLineHeld == [][C4_Step]_vars

\* The stream ended in the middle of a line, after lines were emitted: the
\* partial line is in the buffer and was never emitted.
C4_Witness ==
    /\ pump = "exited" /\ lastWrite = "ok"
    /\ buffer # <<>> /\ buffer = PartialTail(fed)
    /\ Len(sent) = 1 /\ Len(fed) = Len(buffer) + Len(Segments(fed)[1])
    /\ Len(Segments(fed)[1]) > 2

\* C5 as stated: any write() after the Receiver is dropped returns the
\* BrokenPipe error and ends the log thread.
C5_NextWriteAfterDropFails ==
    [][(fed' # fed /\ ~rxAlive) => (lastWrite' = "broken_pipe" /\ pump' = "exited")]_vars

\* After the Receiver is dropped a write() returns the BrokenPipe
\* error exactly when it completes a newline-terminated valid UTF-8 segment
\* (only then does it send); the error ends get_logs and the log thread, no
\* write() follows it, and the step changes nothing of the App or the UI loop.
C5_Step ==
    /\ (fed' # fed /\ ~rxAlive) =>
           /\ lastWrite' = "broken_pipe" <=> ValidSegments(buffer \o ChunkOfStep) # <<>>
           /\ lastWrite' = "broken_pipe" => pump' = "exited"
           /\ lastWrite' # "broken_pipe" => lastWrite' = "ok" /\ pump' = pump
           /\ sent' = sent
           /\ UNCHANGED <<appVars, loopVars>>
    /\ pump = "exited" => fed' = fed /\ pump' = "exited"
    /\ fed' # fed /\ rxAlive => lastWrite' = "ok"

\* C5 amended: every write() after the drop fails exactly when it completes a
\* valid line, and the failure ends the log thread and nothing else (C5_Step).
C5_WriteCompletingLineAfterDropFails == [][C5_Step]_vars

C5_Witness ==
    /\ ~rxAlive /\ lastWrite = "broken_pipe" /\ pump = "exited"
    /\ Len(Segments(fed)) = 2 /\ Len(sent) = 0

\* A tick moves every line queued in the channel into logs_buffer, in
\* arrival order, whether the log thread still runs or has gone; with nothing
\* queued it leaves logs_buffer as it is; and it is never made to wait: it can
\* run in every state of the channel and of the log thread.
C8_Step ==
    /\ logs_buffer' # logs_buffer =>
           /\ chan # <<>>
           /\ chan' = <<>>
           /\ logs_buffer' = logs_buffer \o chan
    /\ (rxAlive' /\ Len(chan') < Len(chan)) => logs_buffer' # logs_buffer
    /\ chan = <<>> => logs_buffer' = logs_buffer

\* C8: a tick can run in every state of the channel and the log thread, and
\* every step that drains moves all queued lines, in order (C8_Step).
C8_TickDrainsAllWithoutWaiting ==
    /\ [](log_receiver = "some" /\ rxAlive => ENABLED Tick)
    /\ [][C8_Step]_vars

\* The log thread has gone with lines still queued, and a tick has moved them.
C8_Witness ==
    /\ pump = "exited" /\ rxAlive
    /\ chan = <<>>
    /\ Len(logs_buffer) = 2 /\ logs_buffer = sent
    /\ logs_buffer[1] # logs_buffer[2]

----------------------------------------------------------------------------
(* Claims on the scrollback buffer and the scroll state, checked under Spec *)

\* C6: the buffer never holds more than MAX_LOG_LINES lines.
C6_BufferCapped == Len(logs_buffer) <= MAX_LOG_LINES

\* A tick of run_app: recv_timeout timed out and on_tick ran.
IsTickStep == uiPc = "recv" /\ uiPc' = "check" /\ events = <<>>

\* When the lines a tick appends make a buffer that was within its cap
\* overflow it by k, so that k lines are evicted from its head, the offset of
\* a manually scrolled view (in range before the tick) goes down by k, not
\* below 0.
C7_Step ==
    LET k == Len(logs_buffer) + Len(chan) - MAX_LOG_LINES
    IN  (/\ IsTickStep
         /\ Len(logs_buffer) <= MAX_LOG_LINES
         /\ vertical_scroll <= max_scroll(frame_height)
         /\ ~follow_tail
         /\ k > 0)
            => vertical_scroll' = Max(0, vertical_scroll - k)

\* C7: every tick that overflows the cap by k lowers the offset by k, not
\* below 0 (C7_Step).
C7_EvictionLowersOffset == [][C7_Step]_vars

\* C9: the scroll offset is always in [0, max(0, totalLines - viewportHeight)],
\* the viewport height being the rows of the log panel at the last draw.
C9_OffsetInRange ==
    /\ vertical_scroll >= 0
    /\ vertical_scroll <= max_scroll(frame_height)

\* A step of run_app that handles the input event at the head of the queue.
IsInputStep(e) ==
    /\ uiPc \in {"recv", "drain"}
    /\ events # <<>> /\ Head(events) = e
    /\ events' = Tail(events)

Clamp(x) == Max(0, Min(max_scroll(frame_height), x))

\* A scroll-down or scroll-up input turns tail following off and moves
\* the offset by one step, clamped to [0, maxScroll] at the time of the input.
C10_Step ==
    /\ IsInputStep("down") => ~follow_tail' /\ vertical_scroll' = Clamp(vertical_scroll + 1)
    /\ IsInputStep("up") => ~follow_tail' /\ vertical_scroll' = Clamp(vertical_scroll - 1)

\* C10: every scroll input turns tail following off and moves the offset by
\* one clamped step (C10_Step).
C10_ScrollStepClamped == [][C10_Step]_vars

\* C11: while follow_tail is true the offset equals
\* max(0, totalLines - viewportHeight) in every state, on either tab, drawn
\* or not since the last append (the viewport height being the rows of the
\* log panel at the last draw).
C11_FollowTailOffsetAlways ==
    follow_tail => vertical_scroll = max_scroll(frame_height)

\* C12: follow_tail starts true, and no step of the program (tick, append,
\* draw at any height, scroll input, tab switch) turns it from false to true.
C12_FollowTailNeverReturns ==
    /\ follow_tail = TRUE
    /\ [][~follow_tail => ~follow_tail']_vars

\* Tail following is off, and since then lines were appended, the tab was
\* switched and a draw completed with the offset at the last line.
C12_Witness ==
    /\ ~follow_tail /\ uiPc = "recv" /\ ~should_draw
    /\ tabs_index = 1 /\ Len(logs_buffer) = 3
    /\ vertical_scroll = max_scroll(frame_height) /\ vertical_scroll >= 1

\* C20: a failed draw costs only its frame: run_app has not returned after
\* it, so that the loop keeps running and draws again on a later tick.
C20_DrawFailureKeepsLoopRunning == app_result = "err" => uiPc # "done"

----------------------------------------------------------------------------
(* Claims on the Tui, checked under SpecTui *)

\* The calls a log holds, and the positions of a call in it.
Calls(log) == {log[i].call : i \in 1..Len(log)}
At(log, call) == {i \in 1..Len(log) : log[i].call = call}

\* The writes that set a mode of the terminal for the alternate screen.
ModeSetWrites ==
    {"EnterAlternateScreen", "LeaveAlternateScreen",
     "EnableAlternateScroll", "DisableAlternateScroll"}

\* Some mode-set write of the log failed.
ModeSetFailed(log) ==
    \E i \in 1..Len(log) : log[i].call \in ModeSetWrites /\ ~log[i].ok

\* C13: enter_alt_screen called in Inline mode with the viewport R, then
\* leave_alt_screen, leaves the viewport equal to R and the mode Inline,
\* whatever calls of the two failed (size query, mode-set writes, clear).
C13_EnterLeaveRestoresInlineRect ==
    (last_op = "leave" /\ inline_rect # <<>>)
        => (viewport_area = inline_rect[1] /\ ~alt_screen_active)

\* The round trip was made from a viewport that is not the full screen, and
\* leave_alt_screen's write to leave the alternate screen failed.
C13_Witness ==
    /\ last_op = "leave" /\ inline_rect # <<>>
    /\ inline_rect[1].height = 1 /\ inline_rect[1].y = 1 /\ term_size.height = 2
    /\ \E i \in At(oplog, "LeaveAlternateScreen") : ~oplog[i].ok

\* A saved rectangle that is present after a step was either saved by that
\* step on leaving Inline mode, as the viewport of that moment, or was there
\* before the step, in Alternate mode, and is unchanged.
C14_Step ==
    alt_saved_viewport' # <<>> =>
        IF alt_screen_active
        THEN alt_saved_viewport' = alt_saved_viewport
        ELSE alt_saved_viewport' = <<viewport_area>>

\* C14: the saved inline rectangle is present only in Alternate mode, and
\* whenever present it is the rectangle the inline viewport had when Inline
\* mode was left (C14_Step), never a full-screen rectangle of Alternate mode.
C14_SavedRectIsInlineRect ==
    /\ [](alt_saved_viewport # <<>> => alt_screen_active)
    /\ [][C14_Step]_vars

\* C15: in every transition (enter_alt_screen, leave_alt_screen, the resume
\* applied at draw) a failed mode-set write is tolerated: the operation that
\* issued it has not returned an error, and a prepared resume was applied.
C15_ModeSetFailureTolerated ==
    ModeSetFailed(oplog) =>
        /\ tui_result # "err"
        /\ (last_op = "draw" /\ tuiPc # "sync") => "applied" \in Calls(oplog)

\* C16: after a Ctrl+Z, exactly one intent has been stored, before the stop
\* signal; in Alternate mode the write that disables the wheel translation
\* and then the write that leaves the alternate screen came first and the
\* intent is RestoreAlt; in Inline mode the intent is RealignInline.
C16_SuspendRecordsOneIntent ==
    last_op = "suspend" =>
        /\ Cardinality(At(oplog, "resume_pending.store")) = 1
        /\ \A s \in At(oplog, "resume_pending.store"), t \in At(oplog, "SIGTSTP") : s < t
        /\ IF alt_screen_active
           THEN /\ resume_pending = "RestoreAlt"
                /\ oplog[1].call = "DisableAlternateScroll"
                /\ oplog[2].call = "LeaveAlternateScreen"
                /\ oplog[3].call = "resume_pending.store"
                /\ oplog[1].ok => ~term.wheel
           ELSE /\ resume_pending = "RealignInline"
                /\ oplog[1].call = "resume_pending.store"

\* A Ctrl+Z in Alternate mode: the wheel translation is off, RestoreAlt is
\* pending and the process was stopped.
C16_Witness ==
    /\ last_op = "suspend" /\ alt_screen_active
    /\ resume_pending = "RestoreAlt" /\ ~term.wheel
    /\ At(oplog, "SIGTSTP") # {}

\* A step that clears a recorded intent hands it to the synchronized update,
\* which applies it once; a draw with nothing pending applies nothing.
C17_Step ==
    /\ (resume_pending # "None" /\ resume_pending' = "None")
           => (tuiPc' = "sync" /\ prepared_resume' # <<>>)
    /\ (tuiPc = "sync" /\ tuiPc' # "sync" /\ prepared_resume # <<>>)
           => Cardinality(At(oplog', "applied")) = 1
    /\ (tuiPc = "sync" /\ tuiPc' # "sync" /\ prepared_resume = <<>>)
           => At(oplog', "applied") = {}
    /\ (tuiPc = "idle" /\ tuiPc' = "sync" /\ resume_pending = "None")
           => prepared_resume' = <<>>

\* C17: the draw after a suspend applies the recorded intent exactly once and
\* leaves no intent pending; no intent is cleared without being applied, and
\* a draw with no intent pending applies nothing (C17_Step).
C17_IntentAppliedOnce == [][C17_Step]_vars

\* A draw that reaches the synchronized update with the cursor on another row
\* than the one recorded at the last draw has computed the viewport moved by
\* the difference of the two rows.
C18_Step ==
    (/\ tuiPc = "idle" /\ tuiPc' = "sync"
     /\ (term_size # last_known_screen_size \/ cursor_y # last_known_cursor_y)
     /\ cursor_y # last_known_cursor_y)
        => pending_viewport_area' =
               <<[viewport_area EXCEPT !.y = @ + cursor_y - last_known_cursor_y]>>

\* C18: at every draw, if the terminal size or the cursor row differs from
\* the one recorded at the last draw and the cursor row has moved by d rows,
\* the viewport is moved by exactly d rows before the frame is drawn, also
\* when only the cursor row changed and the size did not (C18_Step).
C18_ViewportFollowsCursor == [][C18_Step]_vars

\* C19: once a draw has returned, every frame it wrote lies between a begin
\* and an end of a synchronized update in what it issued, and if the begin
\* was written the write of the end is the last thing draw issued, whether
\* the closure returned Ok or an error.
C19_FrameInsideSynchronizedUpdate ==
    (last_op = "draw" /\ tuiPc # "sync") =>
        /\ \A f \in At(oplog, "Frame") :
               /\ \E b \in At(oplog, "BeginSynchronizedUpdate") : b < f /\ oplog[b].ok
               /\ \E e \in At(oplog, "EndSynchronizedUpdate") : f < e
        /\ (\E b \in At(oplog, "BeginSynchronizedUpdate") : oplog[b].ok)
               => oplog[Len(oplog)].call = "EndSynchronizedUpdate"

\* A draw returned an error from inside the synchronized update (the write
\* of the frame failed) and the end of the update was written after it.
C19_Witness ==
    /\ last_op = "draw" /\ tuiPc = "done" /\ tui_result = "err"
    /\ \E f \in At(oplog, "Frame") : ~oplog[f].ok
    /\ oplog[Len(oplog)] = [call |-> "EndSynchronizedUpdate", ok |-> TRUE]

----------------------------------------------------------------------------
(* Claims on startup, exit and panic, checked under SpecLife *)

\* Every call the log holds succeeded.
AllOk(log) == \A i \in 1..Len(log) : log[i].ok

\* The four modes restore switches off are off.
ModesOff(t) == ~t.alt /\ ~t.mouse /\ ~t.paste /\ ~t.raw

\* C21: once tui::init has changed the modes and returned, the panic hook is
\* installed in every state; a panic runs restore before the hook installed
\* earlier reports, and when the calls of restore succeed the alternate
\* screen is left and mouse capture, bracketed paste and raw mode are off.
C21_PanicRestoresModes ==
    /\ tuiPc \in {"idle", "sync", "done"} => hook
    /\ last_op = "panic" =>
          /\ Len(oplog) >= 2
          /\ oplog[1].call = "LeaveAlternateScreen"
          /\ At(oplog, "prev_hook") = {Len(oplog)}
          /\ (AllOk(oplog) => Len(oplog) = 6 /\ ModesOff(term))

\* A panic in Alternate mode (the wheel translation is still on): every call
\* of restore succeeded and the modes are off.
C21_Witness ==
    /\ last_op = "panic" /\ AllOk(oplog) /\ Len(oplog) = 6
    /\ term.wheel /\ ModesOff(term)

\* C22: when tui::init, or the clear after it, fails after a mode was
\* changed, run_tui has restored the modes when it returns the error.
C22_StartupFailureRestores ==
    (tuiPc = "exited" /\ last_op = "init") => (ModesOff(term) /\ term.kbd = 0)

\* C23 as stated: the program returns the result of its loop, run_tui that
\* of App::run and start that of run_app.
C23_LoopResultReturned ==
    /\ last_op = "exit" => exit_result = tui_result
    /\ (uiPc = "returned" /\ AllOk(oplog)) => exit_result = app_result

\* C23, amended: when the loop has returned, with Ok or with an error, the
\* program runs its restore sequence exactly once before it returns, and
\* when the calls of the sequence succeed the modes set at startup are off.
\* run_tui then returns the result of App::run. start returns the failure of
\* its restore sequence if there is one, and Ok otherwise: an error of
\* run_app is printed, not returned.
C23_ExitRestoresOnce ==
    /\ last_op = "exit" =>
          /\ tuiPc = "exited"
          /\ exit_result = tui_result /\ tui_result \in {"ok", "err"}
          /\ oplog # <<>>
          /\ oplog[1].call = "LeaveAlternateScreen"
          /\ \A call \in Calls(oplog) : Cardinality(At(oplog, call)) = 1
          /\ (AllOk(oplog) => Len(oplog) = 5 /\ ModesOff(term))
    /\ uiPc = "returned" =>
          /\ last_op = "start_restore" /\ app_result \in {"ok", "err"}
          /\ oplog # <<>>
          /\ oplog[1].call = "disable_raw_mode"
          /\ \A call \in Calls(oplog) : Cardinality(At(oplog, call)) = 1
          /\ exit_result = (IF AllOk(oplog) THEN "ok" ELSE "err")
          /\ AllOk(oplog) => ModesOff(term)
          /\ "println" \in Calls(oplog) <=> (app_result = "err" /\ exit_result = "ok")

\* start returned Ok after run_app returned an error and the restore
\* sequence succeeded.
C23_Witness ==
    /\ uiPc = "returned" /\ app_result = "err" /\ exit_result = "ok"
    /\ AllOk(oplog) /\ Len(oplog) = 5 /\ ModesOff(term)

\* run_tui returned the error of App::run after a restore whose calls all
\* succeeded.
C23_RunTuiReturnsError ==
    /\ last_op = "exit" /\ exit_result = "err"
    /\ AllOk(oplog) /\ Len(oplog) = 5 /\ ModesOff(term)

----------------------------------------------------------------------------
(* Claims on the log thread and the quit key, checked under Spec *)

\* One event of the kind e is taken from the queue and handled in the step.
Handles(e) ==
    /\ uiPc \in {"recv", "drain"}
    /\ events # <<>> /\ Head(events) = e
    /\ events' = Tail(events)

\* A step spawns the log thread only from start, once; the thread produces
\* only while it streams; once its stream call has returned it stays ended,
\* and the receiver the App reads is never replaced.
C24_Step ==
    /\ (pump = "unspawned" /\ pump' # "unspawned") => (uiPc = "start" /\ pump' = "streaming")
    /\ pump # "unspawned" => pump' # "unspawned"
    /\ pump = "exited" => pump' = "exited"
    /\ (sent' # sent \/ fed' # fed) => pump = "streaming"
    /\ log_receiver = "some" => log_receiver' = "some"

\* C24: at most one log thread produces into the channel the UI reads; it
\* connects once, and after its stream call has returned (disconnect,
\* transport error, receiver gone) it never reconnects and no other thread
\* is started (C24_Step); the channel exists exactly when a thread was spawned.
C24_OnePumpNoRetry ==
    /\ [](pump = "unspawned" <=> log_receiver = "none")
    /\ [][C24_Step]_vars

\* The log thread has ended after sending lines, and the loop has run a tick
\* since.
C24_Witness ==
    /\ pump = "exited" /\ sent # <<>> /\ chan = <<>>
    /\ logs_buffer = sent /\ uiPc = "check"

\* C25 as stated: after the log thread has ended, no tick changes logs_buffer.
C25_TicksChangeNothingAfterPumpEnd ==
    [][(pump = "exited" /\ IsTickStep) => logs_buffer' = logs_buffer]_vars

\* After the log thread has ended: its end does not move the loop; a tick
\* appends the lines still queued, and changes nothing once the queue is
\* empty; a scroll-down key adds one to the offset, a scroll-up key takes one
\* off unless it is 0; the q key sets should_quit.
C25_Step ==
    /\ (pump = "streaming" /\ pump' = "exited") => UNCHANGED <<uiPc, app_result, appVars>>
    /\ pump = "exited" =>
          /\ IsTickStep => (logs_buffer' = logs_buffer \o chan /\ chan' = <<>>)
          /\ (IsTickStep /\ chan = <<>>) => logs_buffer' = logs_buffer
          /\ ~IsTickStep => logs_buffer' = logs_buffer
          /\ Handles("down") => vertical_scroll' = vertical_scroll + 1
          /\ Handles("up") => vertical_scroll' = Max(0, vertical_scroll - 1)
          /\ Handles("q") => should_quit'

\* C25, amended: after the log thread has ended with a transport error the
\* loop keeps running; the first tick appends the lines that were still
\* queued and later ticks leave logs_buffer as it is; scroll keys still move
\* the offset (scroll-up not below 0) and the q key still ends the loop:
\* with should_quit set the loop is in the iteration that ends it.
C25_LoopRunsAfterPumpEnd ==
    /\ [][C25_Step]_vars
    /\ []((pump = "exited" /\ should_quit) => uiPc \in {"drain", "check", "done", "returned"})

\* The log thread ended with lines queued, a tick appended them, and a
\* scroll key has moved the offset since.
C25_Witness ==
    /\ pump = "exited" /\ chan = <<>> /\ logs_buffer # <<>>
    /\ ~follow_tail /\ vertical_scroll > 0
    /\ uiPc = "recv" /\ app_result = "none"

\* C26: once a q key has been handled the loop is in the iteration that
\* handled it, on its way out, or has ended with Ok: it neither waits for an
\* event nor draws again; start then runs its restore sequence and returns,
\* and when the calls of the sequence succeed raw mode, the alternate screen
\* and mouse capture are off and start returns Ok.
C26_QuitEndsLoopWithoutDraw ==
    should_quit =>
        /\ uiPc \in {"drain", "check", "done", "returned"}
        /\ uiPc \in {"done", "returned"} => app_result = "ok"
        /\ uiPc = "returned" =>
              /\ last_op = "start_restore"
              /\ oplog[1].call = "disable_raw_mode"
              /\ AllOk(oplog) => (ModesOff(term) /\ exit_result = "ok" /\ Len(oplog) = 4)

\* The q key was handled, the loop ended and start returned Ok with the
\* terminal restored.
C26_Witness ==
    /\ should_quit /\ uiPc = "returned" /\ exit_result = "ok"
    /\ AllOk(oplog) /\ Len(oplog) = 4 /\ ModesOff(term)

----------------------------------------------------------------------------
(* Claims on entering the alternate screen, checked under SpecTui *)

\* The step is a call of enter_alt_screen made in Inline mode whose size
\* query succeeded: the call reached its clear.
C27_EnterFromInline ==
    /\ tuiPc = "idle" /\ ~alt_screen_active
    /\ last_op' = "enter_from_inline"
    /\ "Clear" \in Calls(oplog')

\* C27: right after enter_alt_screen called in Inline mode with a size query
\* that returned (w, h), the mode is Alternate, the viewport is (0, 0, w, h),
\* the saved rectangle is the viewport of before the call, and the call
\* wrote, in this order, enter alternate screen, enable wheel translation,
\* clear.
C27_EnterAltScreenFromInline ==
    [][C27_EnterFromInline =>
          /\ alt_screen_active'
          /\ viewport_area' = Rect_new(0, 0, term_size.width, term_size.height)
          /\ alt_saved_viewport' = <<viewport_area>>
          /\ [i \in 1..Len(oplog') |-> oplog'[i].call]
                = <<"EnterAlternateScreen", "EnableAlternateScroll", "Clear">>
          /\ (AllOk(oplog') => term'.alt /\ term'.wheel)]_vars

\* enter_alt_screen has been called in Inline mode with an inline viewport
\* that does not start at the top row, and its size query succeeded.
C27_Witness ==
    /\ last_op = "enter_from_inline" /\ alt_screen_active
    /\ Len(oplog) = 3 /\ AllOk(oplog)
    /\ inline_rect # <<>> /\ alt_saved_viewport = inline_rect
    /\ alt_saved_viewport[1].y > 0
    /\ viewport_area = Rect_new(0, 0, term_size.width, term_size.height)
    /\ viewport_area # alt_saved_viewport[1]
    /\ term.alt /\ term.wheel

----------------------------------------------------------------------------
(* Claims on set_modes, restore and suspend, checked under SpecLife *)

\* The calls of restore that return their failure.
RestoreTried == {"DisableMouseCapture", "DisableBracketedPaste", "disable_raw_mode"}

\* The calls of set_modes.
SetModesCalls == ModeCalls \ RestoreCalls

\* restore ran to its end in the operation of the log, and none of its
\* calls failed.
RestoreRanOk(log) ==
    /\ "PopKeyboardEnhancementFlags" \in Calls(log)
    /\ \A i \in 1..Len(log) : log[i].call \in RestoreCalls => log[i].ok

\* With the modes b before set_modes and the terminal t before restore, the
\* modes a after restore: what set_modes turned on is off again, and the
\* flags it pushed are popped.
C28_Back(b, t, a) ==
    /\ \A m \in {"alt", "mouse", "paste", "raw"} : ~b[m] => ~a[m]
    /\ t.kbd = b.kbd + 1 => a.kbd = b.kbd
    /\ (ModesOff(b) /\ t.kbd = b.kbd + 1) => a = b

\* A restore at exit or in the panic hook, and the restore of a suspend,
\* against the modes recorded before the set_modes that preceded it.
C28_Step ==
    /\ ( /\ tuiPc \in {"idle", "sync", "done"} /\ tuiPc' \in {"exited", "panicked"}
         /\ modes_before # <<>> /\ RestoreRanOk(oplog') )
          => C28_Back(modes_before[1], term, Managed(term'))
    /\ ( /\ tuiPc = "idle" /\ tuiPc' = "idle" /\ last_op' = "suspend"
         /\ modes_before # <<>> /\ RestoreRanOk(oplog') )
          => C28_Back(modes_before[1], term, modes_before'[1])

\* C28: restore is the inverse of set_modes: when a restore whose calls
\* succeed follows a set_modes, at startup, in every suspend and at exit,
\* each of alternate screen, mouse capture, bracketed paste and raw mode that
\* set_modes turned on is off again, the keyboard flags it pushed are popped,
\* and from modes that were all off the modes are exactly those of before
\* set_modes.
C28_RestoreInvertsSetModes == [][C28_Step]_vars

\* A suspend whose calls all succeeded: its restore has put the modes of
\* before tui::init back, and its set_modes has set them again.
C28_Witness ==
    /\ last_op = "suspend" /\ AllOk(oplog) /\ "SIGTSTP" \in Calls(oplog)
    /\ modes_before = <<Managed(DefaultModes)>>
    /\ Managed(term) = Managed(TuiModes)

\* C29: tui::init leaves the terminal on its primary screen, so that between
\* operations, with no resume pending and the calls of the last operation
\* succeeded, the terminal is on the alternate screen exactly when
\* alt_screen_active is set.
C29_AltSurfaceIffAlternateMode ==
    (tuiPc = "idle" /\ resume_pending = "None" /\ AllOk(oplog))
        => (term.alt <=> alt_screen_active)

\* C30: in a suspend the stop signal is sent at most once, only after the
\* calls of restore that return their failure have succeeded, with raw mode
\* off, and every call of set_modes comes after the signal; when restore
\* fails, neither the signal is sent nor a mode set.
C30_StopOnlyAfterRestore ==
    last_op = "suspend" =>
        /\ Cardinality(At(oplog, "SIGTSTP")) <= 1
        /\ \A s \in At(oplog, "SIGTSTP") :
              /\ \A call \in RestoreCalls : \E i \in 1..(s - 1) : oplog[i].call = call
              /\ \A i \in 1..(s - 1) : oplog[i].call \in RestoreTried => oplog[i].ok
              /\ \A i \in 1..Len(oplog) : oplog[i].call \in SetModesCalls => i > s
              /\ modes_before # <<>> /\ ~modes_before[1].raw
        /\ (\E i \in 1..Len(oplog) : oplog[i].call \in RestoreTried /\ ~oplog[i].ok)
              => /\ At(oplog, "SIGTSTP") = {}
                 /\ Calls(oplog) \cap SetModesCalls = {}
        /\ At(oplog, "SIGTSTP") = {} => Calls(oplog) \cap SetModesCalls = {}

\* A suspend in which restore failed at DisableBracketedPaste: raw mode is
\* still on, and the process was not stopped.
C30_Witness ==
    /\ last_op = "suspend" /\ term.raw
    /\ "DisableBracketedPaste" \in Calls(oplog) /\ ~AllOk(oplog)
    /\ "SIGTSTP" \notin Calls(oplog)

----------------------------------------------------------------------------
(* Claims on the event stream, checked under SpecStream *)

\* What the last step of the event stream yielded.
Yields(log) == SelectSeq([i \in 1..Len(log) |-> log[i].call],
                         LAMBDA c : c \in {"yield_Key", "yield_Draw", "yield_Paste"})

\* C31: a press of Ctrl+Z is not delivered as a Key event: the stream
\* suspends and then yields exactly one Draw, after the calls of the
\* suspend; every other key event is yielded as Key, a resize as Draw and a
\* paste as Paste.
C31_EventsDelivered ==
    /\ last_op = "suspend" =>
          /\ Yields(oplog) = <<"yield_Draw">>
          /\ oplog[Len(oplog)].call = "yield_Draw"
    /\ last_op = "event" =>
          /\ oplog[1].call \in {"Key", "CtrlV"} => Yields(oplog) = <<"yield_Key">>
          /\ oplog[1].call = "Resize" => Yields(oplog) = <<"yield_Draw">>
          /\ oplog[1].call = "Paste" => Yields(oplog) = <<"yield_Paste">>

----------------------------------------------------------------------------
(* Claims on the viewport of a draw, checked under SpecTui *)

\* The step is a synchronized update of Tui::draw that returned Ok.
DrawReturnsOk == tuiPc = "sync" /\ tuiPc' = "idle"

----------------------------------------------------------------------------
(* Claims on the saved rectangle in Alternate mode, checked under SpecTui *)

\* C33: over a step that starts and ends in Alternate mode with a saved
\* rectangle, the x, width and height of the saved rectangle stay, and its y
\* changes only in the preparation of a RestoreAlt resume, to the row of the
\* cursor; the synchronized update of a draw leaves the saved rectangle as
\* it is.
C33_SavedRectFrame ==
    [][(alt_screen_active /\ alt_screen_active'
          /\ alt_saved_viewport # <<>> /\ alt_saved_viewport' # <<>>) =>
          /\ alt_saved_viewport'[1].x = alt_saved_viewport[1].x
          /\ alt_saved_viewport'[1].width = alt_saved_viewport[1].width
          /\ alt_saved_viewport'[1].height = alt_saved_viewport[1].height
          /\ alt_saved_viewport'[1].y # alt_saved_viewport[1].y =>
                /\ tuiPc = "idle" /\ last_op' = "draw"
                /\ resume_pending = "RestoreAlt" /\ resume_pending' = "None"
                /\ alt_saved_viewport'[1].y = cursor_y
          /\ tuiPc = "sync" => alt_saved_viewport' = alt_saved_viewport]_vars

----------------------------------------------------------------------------
(* Claims on the resume intent and the wheel translation, checked under SpecTui *)

\* C34: whatever the order of suspends, enter_alt_screen, leave_alt_screen
\* and draws, a draw applies a RestoreAltScreen action only in Alternate
\* mode, and a step that enables the wheel translation ends in Alternate
\* mode.
C34_RestoreAltOnlyInAlternate ==
    [][/\ ( /\ tuiPc = "sync" /\ prepared_resume # <<>>
            /\ prepared_resume[1].kind = "RestoreAltScreen"
            /\ "EnableAlternateScroll" \in Calls(oplog') ) => alt_screen_active
       /\ (~term.wheel /\ term'.wheel) => alt_screen_active']_vars

----------------------------------------------------------------------------
(* Claims on the path from the framer to the buffer, checked under Spec *)

\* C35: whatever the order of the writes of the log thread and the ticks of
\* the loop, logs_buffer is a prefix of the lines the framer has emitted, and
\* the lines not yet in it are those queued in the channel, in the order
\* they were emitted: none is lost, doubled or moved. The emitted lines are
\* the valid segments of the bytes fed, trimmed, in their order.
C35_BufferIsPrefixOfEmitted ==
    /\ Len(logs_buffer) <= Len(sent)
    /\ logs_buffer = SubSeq(sent, 1, Len(logs_buffer))
    /\ chan = SubSeq(sent, Len(logs_buffer) + 1, Len(sent))
    /\ Len(sent) = Len(ValidSegments(fed))
    /\ \A i \in 1..Len(sent) : sent[i] = trim_end(ValidSegments(fed)[i])

\* A tick has moved a line to the buffer and the thread has queued a
\* different one since.
C35_Witness ==
    /\ pump = "streaming"
    /\ logs_buffer # <<>> /\ chan # <<>>
    /\ logs_buffer[1] # chan[1]
    /\ Len(sent) = Len(logs_buffer) + Len(chan)

----------------------------------------------------------------------------
(* Claims on the progress of the drain, checked under SpecFair *)

\* C36: while run_app is running, lines queued in the channel are in the
\* end appended to logs_buffer by a tick, also when input events keep
\* arriving: in every run in which the loop comes back to recv_timeout again
\* and again, a channel with lines in it is emptied in the end.
C36_QueuedLinesEventuallyDrained ==
    ([]<>(uiPc = "recv")) => ((chan # <<>>) ~> (chan = <<>>))

====
